---- MODULE Spec2Model ----
(***************************************************************************)
(* Webhook-triggered product enrichment (api/shopify-webhook.js).          *)
(*                                                                         *)
(* Strings that the code normalises or compares by prefix are sequences of *)
(* characters.  A character is a one-letter string; letters outside ASCII  *)
(* are written as the base letter followed by a mark: "e'" is e-acute,     *)
(* "c^" is c-caron, "en-" is the en dash, "tab" is the tab character and   *)
(* "{{BRAND}}" is the placeholder token of the taxonomy template.          *)
(* Slugs, which the code only compares for exact equality, are strings.    *)
(***************************************************************************)
EXTENDS Integers, Sequences, FiniteSets, TLC

VARIABLES
    store,      \* the remote catalog: product, collections, memberships
    events,     \* product events the platform has still to deliver
    inv,        \* one record of locals per handler invocation
    ens,        \* ensureBranchAndTaxonomy driven on its own
    ai,         \* the answers of the generative service in this behaviour
    rm,         \* the variant remapper driven on its own
    rl,         \* rateLimit and its callers on a clock
    wp,         \* waitForProduct and the head of the handler driven on their own
    tx,         \* the taxonomy cache and the lookups driven on their own
    fr,         \* fetchWithRetry driven on its own, on a clock
    md,         \* the attach-only handler run side by side in its modes
    pf          \* a function of the handler or of the seed script applied to its inputs

vars == <<store, events, inv, ai, ens, rm, rl, wp, tx, fr, md, pf>>

-----------------------------------------------------------------------------
(* Characters and the string helpers of the code                           *)

Max(a, b) == IF a >= b THEN a ELSE b
Min(a, b) == IF a <= b THEN a ELSE b

RECURSIVE Flatten(_)
Flatten(ss) == IF ss = <<>> THEN <<>> ELSE Head(ss) \o Flatten(Tail(ss))

Map1(F(_), s) == [i \in 1..Len(s) |-> F(s[i])]

IsSpace(c) == c \in {" ", "tab"}

\* String.prototype.toLowerCase, letter by letter
LowerChar(c) ==
    CASE c = "A" -> "a" [] c = "B" -> "b" [] c = "C" -> "c" [] c = "D" -> "d"
      [] c = "E" -> "e" [] c = "F" -> "f" [] c = "G" -> "g" [] c = "H" -> "h"
      [] c = "I" -> "i" [] c = "J" -> "j" [] c = "K" -> "k" [] c = "L" -> "l"
      [] c = "M" -> "m" [] c = "N" -> "n" [] c = "O" -> "o" [] c = "P" -> "p"
      [] c = "Q" -> "q" [] c = "R" -> "r" [] c = "S" -> "s" [] c = "T" -> "t"
      [] c = "U" -> "u" [] c = "V" -> "v" [] c = "W" -> "w" [] c = "X" -> "x"
      [] c = "Y" -> "y" [] c = "Z" -> "z"
      [] c = "A'" -> "a'" [] c = "E'" -> "e'" [] c = "I'" -> "i'" [] c = "O'" -> "o'"
      [] c = "U'" -> "u'" [] c = "Y'" -> "y'" [] c = "C^" -> "c^" [] c = "S^" -> "s^"
      [] c = "Z^" -> "z^" [] c = "T^" -> "t^" [] c = "D^" -> "d^" [] c = "N^" -> "n^"
      [] c = "L^" -> "l^" [] c = "O~" -> "o~" [] c = "R'" -> "r'" [] c = "L'" -> "l'"
      [] OTHER -> c

toLowerCase(s) == Map1(LowerChar, s)

UpperLetters ==
    {"A","B","C","D","E","F","G","H","I","J","K","L","M","N","O","P","Q","R","S","T",
     "U","V","W","X","Y","Z","A'","C^","D^","E'","I'","L'","L^","N^","O'","O~","R'",
     "S^","T^","U'","Y'","Z^"}

\* String.prototype.toUpperCase, letter by letter
UpperChar(c) ==
    IF \E u \in UpperLetters : LowerChar(u) = c /\ u # c
    THEN CHOOSE u \in UpperLetters : LowerChar(u) = c
    ELSE c

toUpperCase(s) == Map1(UpperChar, s)

\* .normalize("NFD") followed by the removal of the combining marks: the base letter is kept
StripMark(c) ==
    CASE c \in {"a'", "e'", "i'", "o'", "u'", "y'", "c^", "s^", "z^", "t^", "d^", "n^",
                "l^", "o~", "r'", "l'"} ->
            (CASE c = "a'" -> "a" [] c = "e'" -> "e" [] c = "i'" -> "i" [] c = "o'" -> "o"
               [] c = "u'" -> "u" [] c = "y'" -> "y" [] c = "c^" -> "c" [] c = "s^" -> "s"
               [] c = "z^" -> "z" [] c = "t^" -> "t" [] c = "d^" -> "d" [] c = "n^" -> "n"
               [] c = "l^" -> "l" [] c = "o~" -> "o" [] c = "r'" -> "r" [] c = "l'" -> "l")
      [] c \in {"A'", "E'", "I'", "O'", "U'", "Y'", "C^", "S^", "Z^", "T^", "D^", "N^",
                "L^", "O~", "R'", "L'"} ->
            (CASE c = "A'" -> "A" [] c = "E'" -> "E" [] c = "I'" -> "I" [] c = "O'" -> "O"
               [] c = "U'" -> "U" [] c = "Y'" -> "Y" [] c = "C^" -> "C" [] c = "S^" -> "S"
               [] c = "Z^" -> "Z" [] c = "T^" -> "T" [] c = "D^" -> "D" [] c = "N^" -> "N"
               [] c = "L^" -> "L" [] c = "O~" -> "O" [] c = "R'" -> "R" [] c = "L'" -> "L")
      [] OTHER -> c

stripDiacritics(s) == Map1(StripMark, s)

\* the replacement of the hyphen and dash variants by "-"
unifyDashes(s) ==
    LET DashChar(c) == IF c \in {"en-", "em-"} THEN "-" ELSE c
    IN  Map1(DashChar, s)

RECURSIVE trimStart(_)
trimStart(s) == IF s # <<>> /\ IsSpace(Head(s)) THEN trimStart(Tail(s)) ELSE s

RECURSIVE trimEnd(_)
trimEnd(s) ==
    IF s # <<>> /\ IsSpace(s[Len(s)]) THEN trimEnd(SubSeq(s, 1, Len(s) - 1)) ELSE s

trim(s) == trimEnd(trimStart(s))

\* .replace(/\s+/g, " ")
RECURSIVE collapseSpaces(_)
collapseSpaces(s) ==
    IF s = <<>> THEN <<>>
    ELSE IF IsSpace(Head(s)) THEN <<" ">> \o collapseSpaces(trimStart(Tail(s)))
    ELSE <<Head(s)>> \o collapseSpaces(Tail(s))

startsWith(s, prefix) ==
    Len(prefix) <= Len(s) /\ SubSeq(s, 1, Len(prefix)) = prefix

\* String.prototype.includes
includes(s, part) ==
    \E i \in 1..(Len(s) - Len(part) + 1) : SubSeq(s, i, i + Len(part) - 1) = part

\* The least index of arr whose element satisfies P, 0 when there is none
leastOf(I) == IF I = {} THEN 0 ELSE CHOOSE i \in I : \A j \in I : i <= j

firstIndex(P(_), arr) == leastOf({i \in 1..Len(arr) : P(arr[i])})

\* Array.prototype.indexOf, 0-based, -1 when absent
indexOf(arr, v) ==
    LET is(x) == x = v IN firstIndex(is, arr) - 1

\* Array.prototype.find: the first element satisfying P, or Null
Null == [null |-> TRUE]

elementAt(arr, i) == IF i = 0 THEN Null ELSE arr[i]

find(P(_), arr) == elementAt(arr, firstIndex(P, arr))

orElseSeq(a, b) == IF a # <<>> THEN a ELSE b

\* a ?? b, a || b on a value that is an object or null
orElse(a, b) == IF a # Null THEN a ELSE b

\* normalizeForMatch: trim, collapse blanks, lower-case, strip accents, unify dashes
normalizeForMatch(raw) ==
    IF raw = <<>> THEN <<>>
    ELSE unifyDashes(stripDiacritics(toLowerCase(collapseSpaces(trim(raw)))))

-----------------------------------------------------------------------------
(* The taxonomy (loadTaxonomia and the lookups over the cached forest)     *)

\* The texts of the taxonomy, of the products and of the answers
Str ==
    [AUDI        |-> <<"A","U","D","I">>,
     BMW         |-> <<"B","M","W">>,
     Volanty     |-> <<"V","o","l","a","n","t","y">>,
     Interier    |-> <<"I","n","t","e","r","i","e'","r">>,
     Exterier    |-> <<"E","x","t","e","r","i","e'","r">>,
     Audi        |-> <<"A","u","d","i">>,
     Kryt        |-> <<"K","r","y","t"," ","z","r","k","a","d","l","a">>,
     Univerzalny |-> <<"U","n","i","v","e","r","z","a'","l","n","y">>]
s_BrandToken  == <<"{{BRAND}}">>

RawNode(name, title, node_slug, slug, children) ==
    [name |-> name, title |-> title, node_slug |-> node_slug, slug |-> slug,
     facets |-> <<>>, children |-> children]

\* The definition file in its templated form {BRANDS, TEMPLATE}
TaxonomiaJson ==
    [BRANDS   |-> <<Str.AUDI, Str.BMW>>,
     TEMPLATE |->
        RawNode(<<>>, s_BrandToken, "", "",
            << RawNode(<<>>, s_BrandToken \o <<" ">> \o Str.Interier, "interier", "",
                   << RawNode(<<>>, Str.Volanty, "", "volanty", <<>>) >>),
               RawNode(<<>>, s_BrandToken \o <<" ">> \o Str.Exterier, "exterier", "", <<>>) >>)]

ensureName(node) ==
    IF node.name = <<>> /\ node.title # <<>> THEN [node EXCEPT !.name = node.title]
    ELSE node

\* String(s || "").replaceAll("{{BRAND}}", brand)
replaceBrandTokens(s, brand) ==
    Flatten([i \in 1..Len(s) |-> IF s[i] = "{{BRAND}}" THEN brand ELSE <<s[i]>>])

RECURSIVE walk(_, _)
walk(node, brand) ==
    LET src == ensureName(node)
        nm  == IF src.name # <<>> THEN src.name
               ELSE IF src.title # <<>> THEN src.title ELSE brand
    IN  [name      |-> replaceBrandTokens(nm, brand),
         title     |-> src.title,
         node_slug |-> IF src.node_slug = "" /\ src.slug # "" THEN src.slug
                       ELSE src.node_slug,
         facets    |-> src.facets,
         children  |-> [i \in 1..Len(src.children) |-> walk(src.children[i], brand)]]

expandBrand(tpl, brand) ==
    walk(RawNode(IF tpl.title # <<>> THEN tpl.title ELSE s_BrandToken, <<>>,
                 tpl.node_slug, "", tpl.children), brand)

\* taxonomia.json as the process finds it: "missing" (readFileSync raises),
\* "unparsable" (JSON.parse raises) or "json" with the parsed value raw
TaxonomiaFile == [kind |-> "json", raw |-> TaxonomiaJson]

\* Definitions that give no forest: no file, no JSON, no brand, no template
BrokenFiles ==
    {[kind |-> "missing", raw |-> Null],
     [kind |-> "unparsable", raw |-> Null],
     [kind |-> "json", raw |-> [BRANDS |-> <<>>, TEMPLATE |-> TaxonomiaJson.TEMPLATE]],
     [kind |-> "json", raw |-> [BRANDS |-> <<Str.AUDI>>, TEMPLATE |-> Null]]}

\* The process before its first load: let taxonomia = null
NoTaxonomia(file) == [file |-> file, loaded |-> FALSE, taxonomia |-> <<>>, reads |-> 0]

\* The cache test that takes the empty forest for no forest
cacheHit_emptyIsFalsy(t) == t.loaded /\ t.taxonomia # <<>>

\* if (taxonomia): null is falsy, every array is truthy
cacheHit(t) == t.loaded

\* loadTaxonomia that expands the built-in definition when the file is unusable
loadTaxonomia_defaultOnError(t) ==
    IF cacheHit(t) THEN t.taxonomia
    ELSE LET raw == IF t.file.kind # "json" \/ t.file.raw.TEMPLATE = Null
                       \/ t.file.raw.BRANDS = <<>>
                    THEN TaxonomiaJson ELSE t.file.raw
         IN  [i \in 1..Len(raw.BRANDS) |-> expandBrand(raw.TEMPLATE, raw.BRANDS[i])]

\* loadTaxonomia, Case B: the cached forest, or the expansion of the template
\* for every brand; whatever raises inside the try gives the empty forest
loadTaxonomia(t) ==
    IF cacheHit(t) THEN t.taxonomia
    ELSE IF t.file.kind # "json" THEN <<>>
    ELSE IF t.file.raw.TEMPLATE = Null \/ t.file.raw.BRANDS = <<>> THEN <<>>
    ELSE [i \in 1..Len(t.file.raw.BRANDS) |->
             expandBrand(t.file.raw.TEMPLATE, t.file.raw.BRANDS[i])]

\* A call of loadTaxonomia by the process t: what it returns is what it keeps
load(t) ==
    [t EXCEPT !.taxonomia = loadTaxonomia(t), !.loaded = TRUE,
              !.reads = IF cacheHit(t) THEN @ ELSE @ + 1]

\* let taxonomia: the forest the process holds
taxonomia == tx.taxonomia

nodeName(n) == IF n.name # <<>> THEN n.name ELSE n.title

\* getTaxonomyBranchNodesFromLeaf: the path to the first node, in pre-order,
\* whose normalised name is the normalised leaf name
RECURSIVE visitAll(_, _, _, _)

\* The lookup that compares the normalised node names with the name as given
getTaxonomyBranchNodesFromLeaf_rawWant(tax, leafName) ==
    IF tax = <<>> THEN <<>>
    ELSE visitAll(tax, 1, <<>>, leafName)

\* The visit that looks below a node before it looks at the node
visit_childrenFirst(node, path, want) ==
    LET below == visitAll(node.children, 1, path \o <<node>>, want)
    IN  IF below # <<>> THEN below
        ELSE IF normalizeForMatch(nodeName(node)) = want THEN path \o <<node>>
        ELSE <<>>

RECURSIVE visit(_, _, _)
visit(node, path, want) ==
    IF normalizeForMatch(nodeName(node)) = want THEN path \o <<node>>
    ELSE visitAll(node.children, 1, path \o <<node>>, want)

visitAll(nodes, i, path, want) ==
    IF i > Len(nodes) THEN <<>>
    ELSE LET r == visit(nodes[i], path, want)
         IN  IF r # <<>> THEN r ELSE visitAll(nodes, i + 1, path, want)

getTaxonomyBranchNodesFromLeaf(tax, leafName) ==
    IF tax = <<>> THEN <<>>
    ELSE visitAll(tax, 1, <<>>, normalizeForMatch(leafName))

\* getBrandLeaves: childless nodes with a node_slug under the brand root
RECURSIVE walkLeaves(_, _)
walkLeaves(n, path) ==
    LET me == [node |-> n, node_slug |-> n.node_slug, path |-> path \o <<nodeName(n)>>]
    IN  IF n.children = <<>>
        THEN (IF n.node_slug # "" THEN <<me>> ELSE <<>>)
        ELSE Flatten([i \in 1..Len(n.children) |-> walkLeaves(n.children[i], me.path)])

getBrandLeaves(tax, brandName) ==
    IF tax = <<>> \/ brandName = <<>> THEN <<>>
    ELSE LET norm(s) == stripDiacritics(toLowerCase(s))
             isRoot(r) == norm(nodeName(r)) = norm(brandName)
             root == find(isRoot, tax)
         IN  IF root = Null THEN <<>> ELSE walkLeaves(root, <<>>)

\* getBranchBySlug: the closure dfs with its two accumulators, path and found
\* (found = <<>> stands for null; a found path is never empty)
RECURSIVE dfs(_, _, _)
RECURSIVE dfsEach(_, _, _, _)
dfs(n, st, nodeSlug) ==
    LET pushed == Append(st.path, n)
        st1 == [path  |-> pushed,
                found |-> IF n.node_slug = nodeSlug THEN pushed ELSE st.found]
        st2 == IF st1.found = <<>> THEN dfsEach(n.children, 1, st1, nodeSlug) ELSE st1
    IN  IF st2.found = <<>>
        THEN [st2 EXCEPT !.path = SubSeq(st2.path, 1, Len(st2.path) - 1)]
        ELSE st2

dfsEach(nodes, i, st, nodeSlug) ==
    IF i > Len(nodes) THEN st
    ELSE dfsEach(nodes, i + 1, dfs(nodes[i], st, nodeSlug), nodeSlug)

getBranchBySlug(tax, brandName, nodeSlug) ==
    IF tax = <<>> \/ brandName = <<>> \/ nodeSlug = "" THEN <<>>
    ELSE LET isRoot(r) == toLowerCase(nodeName(r)) = toLowerCase(brandName)
             root == find(isRoot, tax)
         IN  IF root = Null THEN <<>>
             ELSE dfs(root, [path |-> <<>>, found |-> <<>>], nodeSlug).found

-----------------------------------------------------------------------------
(* The remote store's collections and the branch ensurer                   *)

\* custom_collections.json?limit=250: one page of the listing, never a second
ListLimit == 250

NoMetafields ==
    [level |-> -1, parent |-> 0, children |-> <<>>, node_slug |-> "", facets |-> <<>>]

NoImage == [base |-> "", ext |-> ""]

\* A collection of the store; id 0 stands for null
Collection(id, title) ==
    [id |-> id, title |-> title, image |-> NoImage, mf |-> NoMetafields]

\* The store lists its collections in the order of their creation
listCustomCollections(colls) == SubSeq(colls, 1, Min(Len(colls), ListLimit))

\* The lookup in one pass: the first listed collection whose normalised
\* title starts with the wanted one
findByNormTitle_onePass(list, want) ==
    LET prefix(c) == startsWith(normalizeForMatch(c.title), want)
    IN  find(prefix, list)

\* The two passes over the listed collections: the exact match, then the
\* collection whose normalised title starts with the wanted one
findByNormTitle(list, want) ==
    LET exact(c)  == normalizeForMatch(c.title) = want
        prefix(c) == startsWith(normalizeForMatch(c.title), want)
    IN  orElse(find(exact, list), find(prefix, list))

restFindCustomCollectionByTitle(colls, title) ==
    findByNormTitle(listCustomCollections(colls), normalizeForMatch(title))

restCreateCustomCollection(st, title) ==
    [st EXCEPT !.colls = Append(@, Collection(st.nextId, title)),
               !.nextId = @ + 1]

byId(colls, id) ==
    LET has(c) == c.id = id IN find(has, colls)

updateById(colls, id, F(_)) ==
    [k \in 1..Len(colls) |-> IF colls[k].id = id THEN F(colls[k]) ELSE colls[k]]

\* findImageUrlForNodeSlug: the slug with each extension, then the default name
imageCandidates(node_slug) ==
    LET ImageExtensions == <<"png", "jpg", "jpeg", "webp">> IN
    (IF node_slug # "" THEN [i \in 1..4 |-> [base |-> node_slug, ext |-> ImageExtensions[i]]]
     ELSE <<>>)
    \o [i \in 1..4 |-> [base |-> "default", ext |-> ImageExtensions[i]]]

findImageUrlForNodeSlug(files, node_slug) ==
    LET hit(name) == name \in files
        f == find(hit, imageCandidates(node_slug))
    IN  IF f = Null THEN NoImage ELSE f

upsertMetafield(colls, id, key, value) ==
    LET set(c) == [c EXCEPT !.mf = [@ EXCEPT ![key] = value]]
    IN  updateById(colls, id, set)

\* setCollectionTaxonomyFields for one ensured node
setTaxonomyFieldsOf(colls, n) ==
    LET c1 == upsertMetafield(colls, n.id, "level", n.level)
        c2 == IF n.parentId # 0 THEN upsertMetafield(c1, n.id, "parent", n.parentId) ELSE c1
        c3 == upsertMetafield(c2, n.id, "children",
                              IF n.childId # 0 THEN <<n.childId>> ELSE <<>>)
        c4 == IF n.node_slug # "" THEN upsertMetafield(c3, n.id, "node_slug", n.node_slug)
              ELSE c3
    IN  IF n.facets # <<>> THEN upsertMetafield(c4, n.id, "facets", n.facets) ELSE c4

RECURSIVE setCollectionTaxonomyFields(_, _, _)
setCollectionTaxonomyFields(colls, nodesEnsured, i) ==
    IF i > Len(nodesEnsured) THEN colls
    ELSE setCollectionTaxonomyFields(setTaxonomyFieldsOf(colls, nodesEnsured[i]),
                                     nodesEnsured, i + 1)

\* The second pass of ensureBranchAndTaxonomy: link each node to its neighbours
linkBranch(ensured) ==
    [i \in 1..Len(ensured) |->
        [ensured[i] EXCEPT
            !.parentId = IF i > 1 THEN ensured[i - 1].id ELSE 0,
            !.childId  = IF i < Len(ensured) THEN ensured[i + 1].id ELSE 0]]

ensuredNode(coll, node, i) ==
    [id |-> coll.id, title |-> nodeName(node), node_slug |-> node.node_slug,
     facets |-> node.facets, level |-> i - 1, parentId |-> 0, childId |-> 0]

\* The image step without the test of the collection read back
imageMissing_untested(full) == TRUE

\* !full?.image?.src on the collection as restGetCustomCollection returned it
imageMissing(full) == full = Null \/ full.image = NoImage

\* The image of a collection that has none, set when a file fits the slug;
\* no failure of this step reaches the caller
setImageOf(st, id, full, url) ==
    LET setImage(c) == [c EXCEPT !.image = url]
    IN  IF imageMissing(full) /\ url # NoImage
        THEN [st EXCEPT !.colls = updateById(@, id, setImage)]
        ELSE st

withImage(st, id, node_slug) ==
    setImageOf(st, id, byId(st.colls, id), findImageUrlForNodeSlug(st.files, node_slug))

hasNormTitle(colls, want) ==
    \E k \in 1..Len(colls) : normalizeForMatch(colls[k].title) = want

\* restEnsureCustomCollection and the image step on the store st =
\* [colls, nextId, files], c being what the find returned.
\* dup tells that a collection was created although the store held one of
\* the same normalised title.
ensureWith(st, node, title, c) ==
    IF c # Null
    THEN [st |-> withImage(st, c.id, node.node_slug), coll |-> c,
          created |-> FALSE, dup |-> FALSE]
    ELSE [st |-> withImage(restCreateCustomCollection(st, title), st.nextId, node.node_slug),
          coll |-> Collection(st.nextId, title),
          created |-> TRUE, dup |-> hasNormTitle(st.colls, normalizeForMatch(title))]

\* One turn of the loop of ensureBranchAndTaxonomy
ensureNode(st, node) ==
    ensureWith(st, node, nodeName(node),
               restFindCustomCollectionByTitle(st.colls, nodeName(node)))

RECURSIVE ensureLoop(_, _, _, _)
ensureTurn(r, branchNodes, i, acc) ==
    ensureLoop(r.st, branchNodes, i + 1,
               [ensured |-> Append(acc.ensured, ensuredNode(r.coll, branchNodes[i], i)),
                dup     |-> acc.dup \/ r.dup])

ensureLoop(st, branchNodes, i, acc) ==
    IF i > Len(branchNodes) THEN [st |-> st, ensured |-> acc.ensured, dup |-> acc.dup]
    ELSE ensureTurn(ensureNode(st, branchNodes[i]), branchNodes, i, acc)

\* The links and the taxonomy fields of the ensured nodes
linkAndSet(st, linked, dup) ==
    [st      |-> [st EXCEPT !.colls = setCollectionTaxonomyFields(@, linked, 1)],
     ensured |-> linked,
     dup     |-> dup]

ensuredBranch(r) == linkAndSet(r.st, linkBranch(r.ensured), r.dup)

\* ensureBranchAndTaxonomy when no remote call fails
ensureBranchAndTaxonomy(st, branchNodes) ==
    ensuredBranch(ensureLoop(st, branchNodes, 1, [ensured |-> <<>>, dup |-> FALSE]))

idsOf(ensured) == [i \in 1..Len(ensured) |-> ensured[i].id]

-----------------------------------------------------------------------------
(* SpecEnsure: ensureBranchAndTaxonomy run twice on a store                *)


\* Titles of collections the store may hold before the first run
StoreTitles ==
    {Str.AUDI, Str.AUDI \o <<" ">> \o Str.Exterier,
     <<"a","u","d","i"," "," ","e","x","t","e","r","i","e'","r">>,
     <<"A","u","d","i","en-","E","x","t","r","a">>}

\* Longest list of such collections in an initial store
MaxNamed == 2

RECURSIVE SeqsUpTo(_, _)
SeqsUpTo(S, n) ==
    IF n = 0 THEN {<<>>}
    ELSE LET shorter == SeqsUpTo(S, n - 1)
         IN  shorter \cup {Append(q, x) : q \in shorter, x \in S}

NoRepeat(q) == \A i, j \in 1..Len(q) : i # j => q[i] # q[j]

\* The store before the first run: no or ListLimit other collections are
\* listed before the named ones
InitialColls ==
    {[k \in 1..(f + Len(q)) |->
         IF k <= f THEN Collection(k, <<"z","z">>) ELSE Collection(k, q[k - f])] :
       f \in {0, ListLimit}, q \in {x \in SeqsUpTo(StoreTitles, MaxNamed) : NoRepeat(x)}}

Files == {[base |-> "volanty", ext |-> "jpg"], [base |-> "default", ext |-> "png"]}

\* The files of the store at the time of a run: none, the two above, or one
\* named after another slug
FileSets == {{}, Files, {[base |-> "exterier", ext |-> "webp"]}}

\* An image a collection was given by hand
OwnImage == [base |-> "own", ext |-> "png"]

EnsureBranches ==
    LET tax == loadTaxonomia(NoTaxonomia(TaxonomiaFile))
    IN  {getBranchBySlug(tax, Str.AUDI, "exterier"),
         getBranchBySlug(tax, Str.AUDI, "volanty"),
         getTaxonomyBranchNodesFromLeaf(tax, Str.BMW \o <<" ">> \o Str.Interier)}

EnsureInit ==
    /\ \E colls \in InitialColls, image \in {NoImage, OwnImage}, branch \in EnsureBranches :
          ens = [st |-> [colls |-> [k \in 1..Len(colls) |-> [colls[k] EXCEPT !.image = image]],
                         nextId |-> Len(colls) + 1, files |-> {}],
                 branch |-> branch, runs |-> <<>>, dup |-> FALSE]
    /\ store = 0 /\ events = 0 /\ inv = 0 /\ ai = 0 /\ rm = 0 /\ rl = 0 /\ wp = 0 /\ tx = 0 /\ fr = 0 /\ md = 0 /\ pf = 0

ranOn(e, r) ==
    [e EXCEPT !.st = r.st, !.runs = Append(@, r.ensured), !.dup = @ \/ r.dup]

\* One call of ensureBranchAndTaxonomy(branch); the code calls it again for
\* the same branch whenever a later pick or a later event resolves to it
EnsureRun ==
    /\ Len(ens.runs) < 2
    /\ \E files \in FileSets :
          ens' = ranOn(ens, ensureBranchAndTaxonomy([ens.st EXCEPT !.files = files], ens.branch))
    /\ UNCHANGED <<store, events, inv, ai, rm, rl, wp, tx, fr, md, pf>>

SpecEnsure == EnsureInit /\ [][EnsureRun]_vars

\* C5: two successive runs of ensureBranch on one branch return the same
\* collection ids in the same order, and no run creates a collection whose
\* normalised title is that of a collection the store already holds,
\* however many collections the store holds.
C5_EnsureBranchIdempotent ==
    /\ Len(ens.runs) = 2 => idsOf(ens.runs[1]) = idsOf(ens.runs[2])
    /\ ~ens.dup

\* C6: the result of ensureBranch has the levels 0..n-1 in order, each node's
\* parentId is the id of the node before it and its childId the id of the node
\* after it (none at the ends), no collection id occurs twice and no node is
\* its own parent or child.
C6_BranchIsSimplePath ==
    \A r \in 1..Len(ens.runs) :
        LET e == ens.runs[r]
        IN  \A i \in 1..Len(e) :
              /\ e[i].level = i - 1
              /\ e[i].parentId = (IF i > 1 THEN e[i - 1].id ELSE 0)
              /\ e[i].childId = (IF i < Len(e) THEN e[i + 1].id ELSE 0)
              /\ e[i].parentId # e[i].id
              /\ e[i].childId # e[i].id
              /\ \A j \in 1..Len(e) : i # j => e[i].id # e[j].id

\* The file a run that ended with the files fs may have set as the image of
\* a collection: the one found for the slug of a node of the branch
imageFor(fs, branchNodes) ==
    {findImageUrlForNodeSlug(fs, branchNodes[n].node_slug) : n \in 1..Len(branchNodes)} \ {NoImage}

\* C24: a run of ensureBranch sets the image of a collection only when the
\* collection has none when the run reads it, and then to the file found for
\* the slug of its node; a collection that has an image keeps that image
\* through every run, whatever files the store holds by then.
C24_ImageSetOnlyWhenMissing ==
    [][\A k \in 1..Len(ens.st.colls) :
          LET before == ens.st.colls[k].image
              after  == ens'.st.colls[k].image
          IN  /\ before # NoImage => after = before
              /\ after # before => after \in imageFor(ens'.st.files, ens.branch)]_vars

\* Two runs are over, the first gave a collection of the branch the default
\* image, or the collection had its own, and it still has that image
\* although the second run found the file named after its slug
C24_ImageKeptThoughFileFits ==
    /\ Len(ens.runs) = 2
    /\ \E n \in 1..Len(ens.branch) :
          LET e    == ens.runs[2][n]
              file == findImageUrlForNodeSlug(ens.st.files, e.node_slug)
          IN  /\ e.id = ens.runs[1][n].id
              /\ file # NoImage
              /\ byId(ens.st.colls, e.id).image \notin {NoImage, file}

-----------------------------------------------------------------------------
(* Classification: the synchronous part of the handler between the rewrite *)
(* and the first write                                                     *)

\* The keyword table of detectBrandFromProduct, in the order of its keys
BrandMap ==
    <<
       [k |-> <<"a","u","d","i">>,
        label |-> <<"A","U","D","I">>],
       [k |-> <<"b","m","w">>,
        label |-> <<"B","M","W">>],
       [k |-> <<"m","e","r","c","e","d","e","s","-","b","e","n","z">>,
        label |-> <<"M","E","R","C","E","D","E","S","-","B","E","N","Z">>],
       [k |-> <<"m","e","r","c","e","d","e","s">>,
        label |-> <<"M","E","R","C","E","D","E","S","-","B","E","N","Z">>],
       [k |-> <<"s^","k","o","d","a">>,
        label |-> <<"S^","K","O","D","A">>],
       [k |-> <<"s","k","o","d","a">>,
        label |-> <<"S^","K","O","D","A">>],
       [k |-> <<"v","o","l","k","s","w","a","g","e","n">>,
        label |-> <<"V","O","L","K","S","W","A","G","E","N">>],
       [k |-> <<"v","w">>,
        label |-> <<"V","O","L","K","S","W","A","G","E","N">>],
       [k |-> <<"s","e","a","t">>,
        label |-> <<"S","E","A","T">>],
       [k |-> <<"p","e","u","g","e","o","t">>,
        label |-> <<"P","E","U","G","E","O","T">>],
       [k |-> <<"c","i","t","r","o","e","n">>,
        label |-> <<"C","I","T","R","O","E","N">>],
       [k |-> <<"r","e","n","a","u","l","t">>,
        label |-> <<"R","E","N","A","U","L","T">>],
       [k |-> <<"f","o","r","d">>,
        label |-> <<"F","O","R","D">>],
       [k |-> <<"t","o","y","o","t","a">>,
        label |-> <<"T","O","Y","O","T","A">>],
       [k |-> <<"h","o","n","d","a">>,
        label |-> <<"H","O","N","D","A">>],
       [k |-> <<"h","y","u","n","d","a","i">>,
        label |-> <<"H","Y","U","N","D","A","I">>],
       [k |-> <<"k","i","a">>,
        label |-> <<"K","I","A">>],
       [k |-> <<"m","a","z","d","a">>,
        label |-> <<"M","A","Z","D","A">>],
       [k |-> <<"o","p","e","l">>,
        label |-> <<"O","P","E","L">>],
       [k |-> <<"n","i","s","s","a","n">>,
        label |-> <<"N","I","S","S","A","N">>],
       [k |-> <<"f","i","a","t">>,
        label |-> <<"F","I","A","T">>],
       [k |-> <<"v","o","l","v","o">>,
        label |-> <<"V","O","L","V","O">>],
       [k |-> <<"m","i","n","i">>,
        label |-> <<"M","I","N","I">>],
       [k |-> <<"p","o","r","s","c","h","e">>,
        label |-> <<"P","O","R","S","C","H","E">>],
       [k |-> <<"t","e","s","l","a">>,
        label |-> <<"T","E","S","L","A">>],
       [k |-> <<"d","a","c","i","a">>,
        label |-> <<"D","A","C","I","A">>]
    >>

RECURSIVE joinWith(_, _)
joinWith(parts, sep) ==
    IF parts = <<>> THEN <<>>
    ELSE IF Len(parts) = 1 THEN parts[1]
    ELSE parts[1] \o sep \o joinWith(Tail(parts), sep)

\* The detection that lets the last key of the table that occurs win
detectBrandFromProduct_lastKey(p, out) ==
    LET fields == <<p.vendor, p.title>> \o p.tags \o out.base_tags \o out.subtags
        nonEmpty(x) == x # <<>>
        hay == joinWith(Map1(toLowerCase, SelectSeq(fields, nonEmpty)), <<" ">>)
        K == {k \in 1..Len(BrandMap) : includes(hay, BrandMap[k].k)}
    IN  IF K = {} THEN <<>> ELSE BrandMap[CHOOSE k \in K : \A j \in K : j <= k].label

detectBrandFromProduct(p, out) ==
    LET fields == <<p.vendor, p.title>> \o p.tags \o out.base_tags \o out.subtags
        nonEmpty(x) == x # <<>>
        hay == joinWith(Map1(toLowerCase, SelectSeq(fields, nonEmpty)), <<" ">>)
        hit(e) == includes(hay, e.k)
        e == find(hit, BrandMap)
    IN  IF e = Null THEN <<>> ELSE e.label

\* The whitelist offered to the service: the slugs of the leaves of the brand
allowedLeaves(tax, brand) ==
    LET leaves == getBrandLeaves(tax, brand)
    IN  {leaves[i].node_slug : i \in 1..Len(leaves)} \ {""}

\* deriveLeafFromTags: a '<BRAND> <category>' name from the tags of the event
FallbackBrands ==
    <<
       <<"a","u","d","i">>,
       <<"b","m","w">>,
       <<"m","e","r","c","e","d","e","s","-","b","e","n","z">>,
       <<"m","e","r","c","e","d","e","s">>,
       <<"s^","k","o","d","a">>,
       <<"s","k","o","d","a">>,
       <<"v","o","l","k","s","w","a","g","e","n">>,
       <<"v","w">>
    >>

\* brand.toUpperCase() and the three spellings the taxonomy writes otherwise
toUpperBrand(b) ==
    LET B == toUpperCase(b)
    IN  IF B = <<"S","K","O","D","A">> THEN <<"S^","K","O","D","A">>
        ELSE IF B = <<"V","W">> THEN <<"V","O","L","K","S","W","A","G","E","N">>
        ELSE IF B = <<"M","E","R","C","E","D","E","S">>
             THEN <<"M","E","R","C","E","D","E","S","-","B","E","N","Z">>
        ELSE B

anyIncludes(t, parts) == \E i \in 1..Len(t) : \E q \in parts : includes(t[i], q)

has(t, x) == \E i \in 1..Len(t) : t[i] = x

deriveLeafFromTags(tags) ==
    LET t == Map1(toLowerCase, tags)
        inTags(b) == has(t, b)
        k == firstIndex(inTags, FallbackBrands)
        B == toUpperBrand(FallbackBrands[k])
        leaf(cat) == B \o <<" ">> \o cat
    IN  IF k = 0 THEN <<>>
        ELSE IF anyIncludes(t, {<<"p","l","a","t","n","i","c","k","y">>, <<"p","l","a","t","n","i'","c","k","y">>})
             THEN leaf(<<"B","r","z","d","o","v","e'"," ","p","l","a","t","n","i","c^","k","y">>)
        ELSE IF anyIncludes(t, {<<"k","o","t","u","c">>, <<"k","o","t","u'","c">>})
             THEN leaf(<<"B","r","z","d","o","v","y'"," ","k","o","t","u'","c^">>)
        ELSE IF has(t, <<"b","r","z","d","y">>) THEN leaf(<<"B","r","z","d","y">>)
        ELSE IF has(t, <<"p","n","e","u","m","a","t","i","k","y">>) THEN leaf(<<"P","n","e","u","m","a","t","i","k","y">>)
        ELSE IF has(t, <<"o","l","e","j">>) THEN leaf(<<"O","l","e","j">>)
        ELSE IF anyIncludes(t, {<<"i","n","t","e","r","i","e","r">>, <<"i","n","t","e","r","i","e'","r">>})
             THEN leaf(Str.Interier)
        ELSE IF anyIncludes(t, {<<"e","x","t","e","r","i","e","r">>, <<"e","x","t","e","r","i","e'","r">>})
             THEN leaf(Str.Exterier)
        ELSE leaf(<<"K","o","m","p","o","n","e","n","t","y">>)

Categories ==
    <<
       <<"I","n","t","e","r","i","e'","r">>,
       <<"E","x","t","e","r","i","e'","r">>,
       <<"K","o","m","p","o","n","e","n","t","y">>,
       <<"B","r","z","d","y">>,
       <<"P","n","e","u","m","a","t","i","k","y">>,
       <<"O","l","e","j">>,
       <<"D","o","p","l","n","k","y">>,
       <<"O","b","l","e","c^","e","n","i","e">>,
       <<"S","t","a","r","o","s","t","l","i","v","o","s","t^"," ","o"," ","a","u","t","o">>,
       <<"V","y","c","h","y","t","a'","v","k","y">>
    >>

\* /[a-z]/i
IsAsciiLetter(c) ==
    LowerChar(c) \in
        {"a","b","c","d","e","f","g","h","i","j","k","l","m","n","o","p","q","r","s","t",
         "u","v","w","x","y","z"}

\* The list with its repetitions left in
unique_keepAll(q) == q

\* Keeps the first occurrence of every element (a Set in insertion order)
RECURSIVE unique(_)
unique(q) ==
    IF q = <<>> THEN <<>>
    ELSE LET r == unique(SubSeq(q, 1, Len(q) - 1))
         IN  IF has(r, q[Len(q)]) THEN r ELSE Append(r, q[Len(q)])

inTaxonomy(tax, leaf) == getTaxonomyBranchNodesFromLeaf(tax, trim(leaf)) # <<>>

\* The collections derived from the subtags and from brand x category of the base tags
derivedCollections(tax, out) ==
    LET inTax(x) == trim(x) # <<>> /\ inTaxonomy(tax, x)
        fromSub == Map1(trim, SelectSeq(out.subtags, inTax))
        isCat(b) == has(Categories, b)
        isBrand(b) == (\E i \in 1..Len(b) : IsAsciiLetter(b[i])) /\ ~isCat(b)
        brands == SelectSeq(out.base_tags, isBrand)
        cats == SelectSeq(out.base_tags, isCat)
        pairs == Flatten([i \in 1..Len(brands) |->
                    [j \in 1..Len(cats) |-> trim(brands[i] \o <<" ">> \o cats[j])]])
    IN  unique(fromSub \o SelectSeq(pairs, inTax))

BrandsList == [i \in 1..Len(BrandMap) |-> BrandMap[i].k]

normTag(x) == trim(stripDiacritics(toLowerCase(x)))

\* /^[A-Z...]+\s/: one or more capital letters and then a blank
startsWithBrandWord(c) ==
    \E n \in 1..(Len(c) - 1) :
        /\ \A i \in 1..n : c[i] \in UpperLetters
        /\ IsSpace(c[n + 1])

\* allTagsNow of the guard
allTagsNow(p, out) == Map1(normTag, p.tags \o out.base_tags \o out.subtags)

\* brandHits: the entries of brandsList whose normalised form is a tag
brandHits(tags) ==
    {BrandsList[i] : i \in {k \in 1..Len(BrandsList) : has(tags, normTag(BrandsList[k]))}}

\* isUniversal || brandHits.size !== 1
isUniversalOrMultiBrand(p, out) ==
    \/ has(allTagsNow(p, out), normTag(<<"U","n","i","v","e","r","z","a'","l","n","y">>))
    \/ Cardinality(brandHits(allTagsNow(p, out))) # 1

\* The guard on out.collections: under it the names that begin with a word
\* in capitals are dropped
guardCollections(p, out, collections) ==
    LET notBrand(c) == ~startsWithBrandWord(c)
    IN  IF isUniversalOrMultiBrand(p, out) THEN SelectSeq(collections, notBrand)
        ELSE collections

\* out.collections as it stands when the writes begin: the tag fallback, the
\* derivation from the AI tags, the universal/multi-brand guard, the final filter
nameCollections(tax, p, out, bodyTags) ==
    LET guess == deriveLeafFromTags(bodyTags)
        c1 == IF out.collections = <<>> /\ guess # <<>> /\ inTaxonomy(tax, guess)
              THEN <<guess>> ELSE out.collections
        derived == derivedCollections(tax, out)
        c2 == IF c1 = <<>> /\ derived # <<>> THEN derived ELSE c1
        c3 == guardCollections(p, out, c2)
        inTax(c) == inTaxonomy(tax, c)
    IN  SelectSeq(c3, inTax)

\* slugPicks: what the service returned, less the falsy entries; no pick when
\* no brand was detected
slugPicksOf(brand, cls) ==
    LET truthy(x) == x # ""
    IN  IF brand = <<>> THEN <<>> ELSE SelectSeq(cls, truthy)

-----------------------------------------------------------------------------
(* The variant remapper (handler, step 2)                                  *)

\* position: NoPosition when the entry has none; hasValues: o.values is an array
NoPosition == -1

OutOption(name, position, hasValues, values) ==
    [name |-> name, position |-> position, hasValues |-> hasValues, values |-> values]

\* o.position ?? i + 1, i being the 0-based index of the entry
positionOf(o, i) == IF o.position # NoPosition THEN o.position ELSE i

\* optionNames: the named entries, each with its position among the named ones
optionNamesOf(outOptions) ==
    LET named(o) == o.name # ""
        kept == SelectSeq(outOptions, named)
    IN  [i \in 1..Len(kept) |-> [name |-> kept[i].name, position |-> positionOf(kept[i], i)]]

\* newValuesByPos: the last entry stored under a position wins; 0 = no entry
newValuesEntry(outOptions, pos) ==
    LET I == {i \in 1..Len(outOptions) :
                outOptions[i].hasValues /\ positionOf(outOptions[i], i) = pos}
    IN  IF I = {} THEN 0 ELSE CHOOSE i \in I : \A j \in I : j <= i

\* posByName / byName: Object.fromEntries keeps the last option of a name
lastOptionNamed(options, name) ==
    LET I == {i \in 1..Len(options) : options[i].name = name}
    IN  IF I = {} THEN 0 ELSE CHOOSE i \in I : \A j \in I : j <= i

\* The remap without the test that the replacement list has an entry at the
\* index: the entry read past its end is undefined
remapValue_noEntryCheck(options, outOptions, so) ==
    LET pos       == lastOptionNamed(options, so.name)
        oldValues == IF pos = 0 THEN <<>> ELSE options[pos].values
        e         == newValuesEntry(outOptions, pos)
        oldIndex  == indexOf(oldValues, so.value)
    IN  IF e # 0 /\ oldIndex >= 0
        THEN (IF oldIndex < Len(outOptions[e].values)
              THEN outOptions[e].values[oldIndex + 1] ELSE "undefined")
        ELSE so.value

\* The new value of one selected option of a variant
remapValue(options, outOptions, so) ==
    LET pos       == lastOptionNamed(options, so.name)
        oldValues == IF pos = 0 THEN <<>> ELSE options[pos].values
        e         == newValuesEntry(outOptions, pos)
        oldIndex  == indexOf(oldValues, so.value)
    IN  IF e # 0 /\ oldIndex >= 0 /\ oldIndex < Len(outOptions[e].values)
        THEN outOptions[e].values[oldIndex + 1]
        ELSE so.value

\* option1..option3 of the variant update: the last selected option of each
\* position 1..3 decides; a position no selected option has is not sent
variantPayload(options, outOptions, variant) ==
    LET sel == variant.selectedOptions
        posAt(j) == lastOptionNamed(options, sel[j].name)
        sent == {q \in 1..3 : \E j \in 1..Len(sel) : posAt(j) = q}
        lastOf(q) == CHOOSE j \in 1..Len(sel) :
                        posAt(j) = q /\ \A k \in 1..Len(sel) : posAt(k) = q => k <= j
    IN  [q \in sent |-> remapValue(options, outOptions, sel[lastOf(q)])]

-----------------------------------------------------------------------------
(* Spec: invocations of the handler against the remote store               *)

\* Invocations that may run in one behaviour
MaxInv == 2

\* Most calls of a run that the remote side fails or rejects
MaxFaults == 1

Invocations == 1..MaxInv

Option(name, position, values) == [name |-> name, position |-> position, values |-> values]

Variant(id, selectedOptions) == [id |-> id, selectedOptions |-> selectedOptions]

Selected(name, value) == [name |-> name, value |-> value]

\* The product of the event, as getProduct returns it, and the tags of the event
ProductAudi ==
    [title |-> Str.Kryt, vendor |-> Str.Audi, tags |-> <<Str.Audi>>,
     options |-> <<Option("Color", 1, <<"Black", "White">>)>>,
     variants |-> <<Variant(11, <<Selected("Color", "Black")>>),
                    Variant(12, <<Selected("Color", "White")>>)>>,
     bodyTags |-> <<Str.Audi, Str.Audi \o <<" ">> \o Str.Exterier>>]

ProductPlain ==
    [title |-> Str.Kryt, vendor |-> <<"X">>, tags |-> <<>>,
     options |-> <<Option("Title", 1, <<"Default">>)>>,
     variants |-> <<Variant(21, <<Selected("Title", "Default")>>)>>,
     bodyTags |-> <<>>]

Products == {ProductAudi, ProductPlain}

\* Answers of the rewrite call
OutBrand ==
    [base_tags |-> <<Str.Audi>>, subtags |-> <<Str.Audi \o <<" ">> \o Str.Exterier>>,
     extra_tags |-> <<>>, collections |-> <<>>,
     options |-> <<OutOption("Farba", NoPosition, TRUE, <<"cierna", "biela">>)>>]

OutUniversal ==
    [base_tags |-> <<Str.Univerzalny, Str.Interier>>, subtags |-> <<>>,
     extra_tags |-> <<>>, collections |-> <<Str.AUDI \o <<" ">> \o Str.Exterier>>,
     options |-> <<>>]

\* No tag at all, and a collection named in another case than the taxonomy's
OutNamed ==
    [base_tags |-> <<>>, subtags |-> <<>>,
     extra_tags |-> <<>>, collections |-> <<Str.Audi \o <<" ">> \o Str.Exterier>>,
     options |-> <<>>]

AIOuts == {OutBrand, OutUniversal, OutNamed}

\* Answers of the leaf classification call: collections_node_slugs, or a raise
AIPicks ==
    {[slugs |-> <<"exterier", "exterier">>, raises |-> FALSE],
     [slugs |-> <<"interier">>, raises |-> FALSE],
     [slugs |-> <<"zahrada", "">>, raises |-> FALSE],
     [slugs |-> <<>>, raises |-> TRUE]}

IdleInv ==
    [pc |-> "idle", cause |-> "", processed |-> FALSE, brand |-> <<>>,
     slugPicks |-> <<>>, collections |-> <<>>, k |-> 0, pick |-> 0, branch |-> <<>>,
     n |-> 0, ensured |-> <<>>, status |-> 0, body |-> "",
     did |-> {}, failedAt |-> "", answer |-> "", tries |-> 0, rejected |-> 0, collect |-> ""]

Init ==
    /\ \E p \in Products, out \in AIOuts, cls \in AIPicks :
          /\ store = [product |-> p, processed |-> "", enriched |-> 0,
                      colls |-> <<>>, nextId |-> 1, files |-> Files, collects |-> <<>>]
          /\ ai = [out |-> out, cls |-> cls, faults |-> 0]
    /\ events = [first |-> 1, own |-> 0]
    /\ inv = [i \in Invocations |-> IdleInv]
    /\ \E file \in {TaxonomiaFile} \cup BrokenFiles : tx = load(NoTaxonomia(file))
    /\ ens = 0 /\ rm = 0 /\ rl = 0 /\ wp = 0 /\ fr = 0 /\ md = 0 /\ pf = 0

\* The calls an invocation has issued are kept by name
LogCall(rec, op) == [rec EXCEPT !.did = @ \cup {op}]

\* The platform queues one more event of the given cause, as long as an
\* invocation is left to handle it
pend(ev, cause) ==
    IF ev.first + ev.own >= Cardinality({j \in Invocations : inv[j].pc = "idle"}) THEN ev
    ELSE IF cause = "first" THEN [ev EXCEPT !.first = @ + 1]
    ELSE [ev EXCEPT !.own = @ + 1]

\* res.status(s).send(b) without the return: the handler goes on
respond_noReturn(rec, status, body) ==
    [rec EXCEPT !.status = status, !.body = body]

\* res.status(s).send(b): the invocation ends, its locals are gone
respond(rec, status, body) ==
    [IdleInv EXCEPT !.pc = "done", !.status = status, !.body = body,
                    !.cause = rec.cause, !.processed = rec.processed, !.did = rec.did]

\* The catch of the handler: 500, and the platform delivers the event again;
\* the step that raised and the answer that made it raise are kept
FailWith(i, rec, answer) ==
    /\ inv' = [inv EXCEPT ![i] = [respond(rec, 500, "Error") EXCEPT
                                    !.failedAt = rec.pc, !.answer = answer]]
    /\ events' = pend(events, rec.cause)

\* A successful write to the product makes the platform queue an update event
Wrote(i, rec) ==
    /\ inv' = [inv EXCEPT ![i] = rec]
    /\ events' = pend(events, "own")

Step(i, rec) ==
    /\ inv' = [inv EXCEPT ![i] = rec]
    /\ UNCHANGED events

\* The remote side fails or rejects one more call, or none
Faulted == ai.faults < MaxFaults /\ ai' = [ai EXCEPT !.faults = @ + 1]

\* The anti-loop test: the metafield automation.processed reads "true"
isProcessed_wrongLiteral(p) == p.processed = "1"

isProcessed(p) == p.processed = "true"

bySlug(rec) == rec.slugPicks # <<>> /\ rec.brand # <<>>

picksOf(rec) == IF bySlug(rec) THEN rec.slugPicks ELSE rec.collections

\* The branch of a pick, a pick without a branch in the taxonomy getting a
\* node of its own
branchOfPick_fabricated(rec, j) ==
    LET own(name, slug) == <<[name |-> name, title |-> <<>>, node_slug |-> slug,
                              facets |-> <<>>, children |-> <<>>]>>
    IN  IF bySlug(rec)
        THEN orElseSeq(getBranchBySlug(taxonomia, rec.brand, rec.slugPicks[j]),
                       own(<<"N","o","v","a'">>, rec.slugPicks[j]))
        ELSE orElseSeq(getTaxonomyBranchNodesFromLeaf(taxonomia, trim(rec.collections[j])),
                       own(rec.collections[j], ""))

branchOfPick(rec, j) ==
    IF bySlug(rec) THEN getBranchBySlug(taxonomia, rec.brand, rec.slugPicks[j])
    ELSE IF trim(rec.collections[j]) = <<>> THEN <<>>
    ELSE getTaxonomyBranchNodesFromLeaf(taxonomia, trim(rec.collections[j]))

\* Step 3 of the handler from pick number `from` on: the picks without a
\* branch are skipped; the first one with a branch is ensured next; after the
\* last one the flag is written
advancePick(rec, from) ==
    LET J == {j \in from..Len(picksOf(rec)) : branchOfPick(rec, j) # <<>>}
        j == CHOOSE x \in J : \A y \in J : x <= y
    IN  IF J = {} THEN [rec EXCEPT !.pc = "flag", !.branch = <<>>, !.ensured = <<>>,
                                   !.pick = 0, !.n = 0]
        ELSE [rec EXCEPT !.pc = "find", !.pick = j, !.branch = branchOfPick(rec, j),
                         !.n = 1, !.ensured = <<>>]

\* After node n is ensured: the next node, or the linking pass
nodeEnsured(rec, collId) ==
    LET e == Append(rec.ensured, ensuredNode([id |-> collId], rec.branch[rec.n], rec.n))
    IN  IF rec.n < Len(rec.branch)
        THEN [rec EXCEPT !.ensured = e, !.n = @ + 1, !.pc = "find"]
        ELSE [rec EXCEPT !.ensured = linkBranch(e), !.n = 1, !.pc = "metafields"]

\* The platform delivers a pending event: the handler starts, waitForProduct
\* reads the product (or gives up: 202) and the anti-loop test is made
Start(i) ==
    /\ inv[i].pc = "idle"
    /\ \A j \in Invocations : j < i => inv[j].pc # "idle"
    /\ \E cause \in {"first", "own"} :
          /\ events[cause] > 0
          /\ LET rec == [IdleInv EXCEPT !.cause = cause]
                 read == [rec EXCEPT !.processed = store.processed = "true"]
             IN  \/ /\ events' = [events EXCEPT ![cause] = @ - 1]
                    /\ inv' = [inv EXCEPT ![i] =
                                 IF isProcessed(store)
                                 THEN respond(read, 200, "Already processed")
                                 ELSE [read EXCEPT !.pc = "rewrite"]]
                 \/ /\ events' = [events EXCEPT ![cause] = @ - 1]
                    /\ inv' = [inv EXCEPT ![i] = respond(rec, 202, "Product not ready yet")]
    /\ UNCHANGED <<store, ai, ens, rm, rl, wp, tx, fr, md, pf>>

\* openAIRewrite without the test for a missing content and with a lenient parse
openAIRewrite_lenient(answer) ==
    IF answer = "raise" THEN "raised" ELSE "out"

\* openAIRewrite on the answer of the service: the fetch raises, the answer
\* has no choices[0].message.content, the content is not JSON, or it is
openAIRewrite(answer) ==
    CASE answer = "raise" -> "raised"
      [] answer = "no content" -> "raised"
      [] answer = "invalid JSON" -> "raised"
      [] OTHER -> "out"

\* openAIRewrite, detectBrandFromProduct
OpenAIRewrite(i) ==
    /\ inv[i].pc = "rewrite"
    /\ \E answer \in {"raise", "no content", "invalid JSON", "JSON"} :
         LET called == [LogCall(inv[i], "openAIRewrite") EXCEPT !.answer = answer]
             brand == detectBrandFromProduct(store.product, ai.out)
         IN  /\ IF answer = "JSON" THEN UNCHANGED ai ELSE Faulted
             /\ IF openAIRewrite(answer) = "raised" THEN FailWith(i, called, answer)
                ELSE IF brand # <<>>
                THEN Step(i, [called EXCEPT !.pc = "pick", !.brand = brand])
                ELSE Step(i, [called EXCEPT
                       !.pc = "update",
                       !.collections = nameCollections(taxonomia, store.product, ai.out,
                                                       store.product.bodyTags)])
    /\ UNCHANGED <<store, ens, rm, rl, wp, tx, fr, md, pf>>

\* aiPickCollectionSlugs inside its try, then the fallbacks and the guard
AiPick(i) ==
    /\ inv[i].pc = "pick"
    /\ Step(i, [LogCall(inv[i], "aiPickCollectionSlugs") EXCEPT
                     !.pc = "update",
                     !.slugPicks = IF ai.cls.raises THEN <<>>
                                   ELSE slugPicksOf(inv[i].brand, ai.cls.slugs),
                     !.collections = nameCollections(taxonomia, store.product, ai.out,
                                                     store.product.bodyTags)])
    /\ UNCHANGED <<store, ai, ens, rm, rl, wp, tx, fr, md, pf>>

\* The handler that goes from the product update to the collections
afterUpdate_attachFirst(rec) == advancePick(rec, 1)

afterUpdate(rec) ==
    IF optionNamesOf(ai.out.options) # <<>> THEN [rec EXCEPT !.pc = "options"]
    ELSE [rec EXCEPT !.pc = "variant", !.k = 1]

\* gql on the answer of the store to a mutation: it raises on j.errors and on
\* j.data.userErrors; the userErrors of a mutation are in j.data.<mutation>,
\* where gql does not look
gql(answer) ==
    CASE answer = "errors" -> "raised"
      [] answer = "userErrors" -> "returned"
      [] OTHER -> "returned"

\* productUpdate: title, description, tags
ProductUpdate(i) ==
    /\ inv[i].pc = "update"
    /\ \E answer \in {"product", "errors", "userErrors"} :
         LET called == LogCall(inv[i], "productUpdate")
         IN  /\ IF answer = "product" THEN UNCHANGED ai ELSE Faulted
             /\ IF gql(answer) = "raised"
                THEN FailWith(i, called, "") /\ UNCHANGED store
                ELSE IF answer = "userErrors"
                THEN Step(i, afterUpdate(LogCall(called, "rejected"))) /\ UNCHANGED store
                ELSE /\ Wrote(i, afterUpdate(called))
                     /\ store' = [store EXCEPT !.enriched = @ + 1]
    /\ UNCHANGED <<ens, rm, rl, wp, tx, fr, md, pf>>

\* restUpdateProductOptions
OptionsUpdate(i) ==
    /\ inv[i].pc = "options"
    /\ \/ /\ UNCHANGED ai
          /\ Wrote(i, [LogCall(inv[i], "restUpdateProductOptions") EXCEPT
                         !.pc = "variant", !.k = 1])
       \/ /\ Faulted
          /\ FailWith(i, LogCall(inv[i], "restUpdateProductOptions"), "")
    /\ UNCHANGED <<store, ens, rm, rl, wp, tx, fr, md, pf>>

\* for (let i = 0; i < 3 && !ok; i++)
VariantTries == 3

afterVariant(rec) ==
    IF rec.k < Len(store.product.variants) THEN [rec EXCEPT !.k = @ + 1]
    ELSE advancePick([rec EXCEPT !.k = 0], 1)

\* One try of the update of variant k in its retry loop: up to 3 tries; a
\* 404 is tried again after sleep(700), any other failure is thrown; when the
\* third try answers 404 too the loop ends with ok = false, nothing is
\* thrown and the handler goes on
VariantUpdate(i) ==
    /\ inv[i].pc = "variant"
    /\ LET called == LogCall(inv[i], "restUpdateVariantOptions")
       IN  \/ /\ UNCHANGED ai
              /\ Wrote(i, afterVariant([called EXCEPT !.tries = 0]))
           \/ /\ IF inv[i].tries = 0 THEN Faulted ELSE UNCHANGED ai
              /\ IF inv[i].tries + 1 < VariantTries
                 THEN Step(i, [called EXCEPT !.tries = @ + 1])
                 ELSE Step(i, afterVariant([LogCall(called, "variant404") EXCEPT !.tries = 0]))
           \/ /\ Faulted
              /\ FailWith(i, called, "")
    /\ UNCHANGED <<store, ens, rm, rl, wp, tx, fr, md, pf>>

\* The image step of ensureBranchAndTaxonomy with the try around it: the
\* read back, the file search or the PUT may raise, which is logged
assignImage_noCatch(answer) ==
    IF answer = "raises" THEN "raised" ELSE "assigned"

assignImage(answer) ==
    IF answer = "raises" THEN "logged" ELSE "assigned"

\* restFindCustomCollectionByTitle for node n of the branch, and for a
\* collection that was found the image step
FindCollection(i) ==
    /\ inv[i].pc = "find"
    /\ LET node == inv[i].branch[inv[i].n]
           called == LogCall(inv[i], "restFindCustomCollectionByTitle")
           c == restFindCustomCollectionByTitle(store.colls, nodeName(node))
       IN  \/ /\ UNCHANGED ai
              /\ IF c # Null
                 THEN /\ store' = withImage(store, c.id, node.node_slug)
                      /\ Step(i, nodeEnsured(called, c.id))
                 ELSE /\ UNCHANGED store
                      /\ Step(i, [called EXCEPT !.pc = "create"])
           \/ /\ c # Null
              /\ Faulted
              /\ UNCHANGED store
              /\ IF assignImage("raises") = "raised" THEN FailWith(i, called, "image")
                 ELSE Step(i, nodeEnsured(LogCall(called, "image failed"), c.id))
           \/ /\ Faulted
              /\ UNCHANGED store
              /\ FailWith(i, called, "")
    /\ UNCHANGED <<ens, rm, rl, wp, tx, fr, md, pf>>

\* restCreateCustomCollection, and the image step inside its try: an image
\* step that raises is logged and the node is ensured without it
CreateCollection(i) ==
    /\ inv[i].pc = "create"
    /\ LET node == inv[i].branch[inv[i].n]
           called == LogCall(inv[i], "restCreateCustomCollection")
           created == restCreateCustomCollection(store, nodeName(node))
       IN  \/ /\ UNCHANGED ai
              /\ store' = withImage(created, store.nextId, node.node_slug)
              /\ Step(i, nodeEnsured(called, store.nextId))
           \/ /\ Faulted
              /\ store' = created
              /\ IF assignImage("raises") = "raised" THEN FailWith(i, called, "image")
                 ELSE Step(i, nodeEnsured(LogCall(called, "image failed"), store.nextId))
           \/ /\ Faulted
              /\ UNCHANGED store
              /\ FailWith(i, called, "")
    /\ UNCHANGED <<ens, rm, rl, wp, tx, fr, md, pf>>

\* restUpsertCollectionMetafield on an answer that is not ok: a warning
restUpsertCollectionMetafield_raising(answer) ==
    IF answer = "ok" THEN "written" ELSE "raised"

restUpsertCollectionMetafield(answer) ==
    IF answer = "ok" THEN "written" ELSE "warned"

\* The collections after setCollectionTaxonomyFields when the store did not
\* accept the write of one key of one collection: every other write is made
withRejected(before, after, id, key) ==
    upsertMetafield(after, id, key, byId(before, id).mf[key])

\* setCollectionTaxonomyFields for the ensured branch: a metafield write
\* that the store does not accept is logged and the next one is issued
SetTaxonomyFields(i) ==
    /\ inv[i].pc = "metafields"
    /\ LET called == [LogCall(inv[i], "collectionMetafields") EXCEPT !.pc = "collect"]
           written == setCollectionTaxonomyFields(store.colls, inv[i].ensured, 1)
       IN  \/ /\ UNCHANGED ai
              /\ store' = [store EXCEPT !.colls = written]
              /\ Step(i, called)
           \/ /\ Faulted
              /\ \E j \in 1..Len(inv[i].ensured) :
                    IF restUpsertCollectionMetafield("422") = "raised"
                    THEN /\ UNCHANGED store
                         /\ FailWith(i, called, "metafield")
                    ELSE /\ store' = [store EXCEPT !.colls =
                                        withRejected(@, written, inv[i].ensured[j].id, "children")]
                         /\ Step(i, [LogCall(called, "metafields failed") EXCEPT !.rejected = j])
    /\ UNCHANGED <<ens, rm, rl, wp, tx, fr, md, pf>>

afterCollect(rec) ==
    IF rec.n < Len(rec.ensured) THEN [rec EXCEPT !.n = @ + 1]
    ELSE advancePick(rec, rec.pick + 1)

\* The store keeps one membership per product and collection: a second
\* create is answered 422 'already exists'
collectAnswer(collects, collectionId) ==
    IF has(collects, collectionId) THEN "422 already exists" ELSE "201"

\* restCreateCollect of part_001: every answer that is not ok raises
restCreateCollect_raiseOn422(answer) ==
    IF answer = "201" THEN "created" ELSE "raised"

\* restCreateCollect that takes every 422 for an existing membership
restCreateCollect_any422(answer) ==
    CASE answer = "201" -> "created"
      [] answer \in {"422 already exists", "422 other"} -> "skipped"
      [] OTHER -> "raised"

\* restCreateCollect: what the call does with the answer of the store
restCreateCollect(answer) ==
    CASE answer = "201" -> "created"
      [] answer = "422 already exists" -> "skipped"
      [] OTHER -> "raised"

\* The attach of the product to the collection of node n; a 429 is the one
\* fetchWithRetry hands on after its last retry
CreateCollect(i) ==
    /\ inv[i].pc = "collect"
    /\ LET id == inv[i].ensured[inv[i].n].id
       IN  \E answer \in {collectAnswer(store.collects, id), "422 other", "429", "500"} :
             LET res == restCreateCollect(answer)
                 rec == [LogCall(inv[i], "restCreateCollect") EXCEPT !.collect = answer]
             IN  /\ IF answer \in {"422 other", "429", "500"} THEN Faulted ELSE UNCHANGED ai
                 /\ store' = IF answer = "201"
                             THEN [store EXCEPT !.collects = Append(@, id)] ELSE store
                 /\ IF res = "raised" THEN FailWith(i, rec, answer)
                    ELSE Step(i, afterCollect(rec))
    /\ UNCHANGED <<ens, rm, rl, wp, tx, fr, md, pf>>

\* metafieldsSet: automation.processed = true, then 200 OK
SetProcessed(i) ==
    /\ inv[i].pc = "flag"
    /\ \E answer \in {"metafields", "errors", "userErrors"} :
         LET called == LogCall(inv[i], "metafieldsSet")
         IN  /\ IF answer = "metafields" THEN UNCHANGED ai ELSE Faulted
             /\ IF gql(answer) = "raised"
                THEN FailWith(i, called, "") /\ UNCHANGED store
                ELSE IF answer = "userErrors"
                THEN Step(i, respond(LogCall(called, "rejected"), 200, "OK")) /\ UNCHANGED store
                ELSE /\ store' = [store EXCEPT !.processed = "true"]
                     /\ Wrote(i, respond(called, 200, "OK"))
    /\ UNCHANGED <<ens, rm, rl, wp, tx, fr, md, pf>>

Next ==
    \E i \in Invocations :
        \/ Start(i)
        \/ OpenAIRewrite(i)
        \/ AiPick(i)
        \/ ProductUpdate(i)
        \/ OptionsUpdate(i)
        \/ VariantUpdate(i)
        \/ FindCollection(i)
        \/ CreateCollection(i)
        \/ SetTaxonomyFields(i)
        \/ CreateCollect(i)
        \/ SetProcessed(i)

Spec == Init /\ [][Next]_vars

\* C1: an invocation whose product read carries automation.processed = "true"
\* answers 200 'Already processed' and issues no generative call and no write
C1_ProcessedShortCircuits ==
    \A i \in Invocations :
        inv[i].processed =>
            /\ inv[i].pc = "done"
            /\ inv[i].status = 200
            /\ inv[i].body = "Already processed"
            /\ inv[i].did = {}

C1_ReadProcessed ==
    \E i \in Invocations : inv[i].processed /\ inv[i].body = "Already processed"

\* C2: the invocation that has written the processed flag has ended, and each
\* of its earlier steps, every variant update among them, has completed
C2_FlagAfterAllSteps ==
    \A i \in Invocations :
        "metafieldsSet" \in inv[i].did =>
            /\ inv[i].pc = "done"
            /\ "variant404" \notin inv[i].did

\* C3: no invocation started by an event that the writes of the pipeline
\* caused makes a generative call or a product update
C3_OwnWritesDoNotEnrich ==
    \A i \in Invocations :
        inv[i].cause = "own" =>
            inv[i].did \cap {"openAIRewrite", "aiPickCollectionSlugs", "productUpdate"} = {}

\* C4: the store holds at most one membership per collection for the product,
\* and an attach that the store answers with 201 or with its 422 'already
\* exists' does not fail the invocation
C4_AttachIdempotent ==
    /\ NoRepeat(store.collects)
    /\ \A i \in Invocations :
          inv[i].failedAt = "collect" => inv[i].answer \notin {"201", "422 already exists"}

\* The second pick resolves to the branch of the first one, and the attach of
\* its first node has run again and let the invocation go on
C4_AttachedTwice ==
    \E i \in Invocations :
        /\ inv[i].pc = "collect" /\ inv[i].pick = 2 /\ inv[i].n = 2
        /\ has(store.collects, inv[i].ensured[1].id)

\* The calls that write to the remote store
Writes ==
    {"productUpdate", "restUpdateProductOptions", "restUpdateVariantOptions",
     "restCreateCustomCollection", "collectionMetafields", "restCreateCollect",
     "metafieldsSet"}

\* C12: an invocation whose rewrite call raised, returned no content or
\* returned content that is not JSON has answered 500 and has issued no write
\* to the remote store
C12_RewriteFailureIs500NoWrite ==
    \A i \in Invocations :
        inv[i].answer \in {"raise", "no content", "invalid JSON"} =>
            /\ inv[i].pc = "done"
            /\ inv[i].status = 500
            /\ inv[i].failedAt = "rewrite"
            /\ inv[i].did \cap Writes = {}

C12_RewriteReturnedInvalidJson ==
    \E i \in Invocations :
        /\ inv[i].answer = "invalid JSON" /\ inv[i].status = 500
        /\ \E j \in Invocations : "metafieldsSet" \in inv[j].did

\* C13: an invocation in which the store rejected the product-field update,
\* the option rename, a variant update or the flag write, by an error answer
\* or by user errors inside the answer of the mutation, answers 500 and never
\* 200; the flag is not written after a rejected product-field update
C13_RejectedWriteIs500 ==
    \A i \in Invocations :
        /\ inv[i].failedAt \in {"update", "options", "variant", "flag"} => inv[i].status = 500
        /\ "rejected" \in inv[i].did =>
              /\ inv[i].status # 200
              /\ inv[i].pc = "done" => inv[i].status = 500
              /\ "metafieldsSet" \notin inv[i].did

\* C14: an invocation in which a write of the branch-ensure stage failed (the
\* creation of a collection, the image assignment or a collection metafield
\* write) is not failed by it: it writes the processed flag and answers 200 OK
C14_EnsureWriteFailureNotFatal ==
    \A i \in Invocations :
        (/\ inv[i].pc = "done"
         /\ \/ inv[i].failedAt = "create"
            \/ inv[i].did \cap {"image failed", "metafields failed"} # {})
        => /\ inv[i].status = 200
           /\ inv[i].body = "OK"
           /\ "metafieldsSet" \in inv[i].did

\* C15: an invocation for which no brand is detected issues no leaf
\* classification call, no collection ensure call and no membership create
\* call; when it ends without a failed call it has updated the product fields
\* and the variants, written the flag and answered 200 OK
C15_NoBrandNoCollections ==
    \A i \in Invocations :
        (/\ "openAIRewrite" \in inv[i].did
         /\ inv[i].answer = "JSON" \/ inv[i].pc = "done"
         /\ detectBrandFromProduct(store.product, ai.out) = <<>>)
        => /\ "aiPickCollectionSlugs" \notin inv[i].did
           /\ inv[i].pc \notin {"find", "create", "metafields", "collect"}
           /\ inv[i].did \cap {"restCreateCustomCollection", "collectionMetafields",
                                "restCreateCollect"} = {}
           /\ (inv[i].pc = "done" /\ inv[i].body = "OK")
                 => {"productUpdate", "restUpdateVariantOptions", "metafieldsSet"}
                       \subseteq inv[i].did

\* C16: when the taxonomy definition is missing, unparsable or of an
\* unsupported shape, the load gives the empty forest, every branch lookup
\* gives the empty sequence, no collection is ensured and no membership is
\* created, and the invocation is not failed by it: it fails only where the
\* remote side failed a call, and otherwise updates the product fields and
\* the variants, writes the flag and answers 200 OK
C16_BrokenTaxonomyStillEnriches ==
    tx.file \in BrokenFiles =>
        /\ taxonomia = <<>>
        /\ \A name \in {Str.AUDI, Str.AUDI \o <<" ">> \o Str.Exterier, Str.Volanty, <<>>} :
               getTaxonomyBranchNodesFromLeaf(taxonomia, name) = <<>>
        /\ \A slug \in {"exterier", "volanty", ""} :
               getBranchBySlug(taxonomia, Str.AUDI, slug) = <<>>
        /\ getBrandLeaves(taxonomia, Str.AUDI) = <<>>
        /\ \A i \in Invocations :
               /\ inv[i].pc \notin {"find", "create", "metafields", "collect"}
               /\ inv[i].did \cap {"restCreateCustomCollection", "collectionMetafields",
                                    "restCreateCollect"} = {}
               /\ inv[i].status = 500 => ai.faults > 0
               /\ (inv[i].pc = "done" /\ inv[i].body = "OK")
                     => {"productUpdate", "restUpdateVariantOptions", "metafieldsSet"}
                           \subseteq inv[i].did

C16_EnrichedWithoutTaxonomy ==
    /\ tx.file.kind = "missing"
    /\ \E i \in Invocations :
          /\ inv[i].body = "OK"
          /\ {"aiPickCollectionSlugs", "metafieldsSet"} \subseteq inv[i].did

\* The steps and the calls of the collection stage
EnsureSteps == {"find", "create", "metafields", "collect"}

EnsureCalls ==
    {"restFindCustomCollectionByTitle", "restCreateCustomCollection",
     "collectionMetafields", "restCreateCollect"}

\* C22: in an invocation the remote operations happen in the order product
\* fetch, classification, branch ensure, membership attach, variant updates,
\* flag write: no variant update is issued before the ensure and attach
\* steps of the invocation have completed
C22_RemapAfterEnsureAndAttach ==
    \A i \in Invocations :
        /\ inv[i].pc \in EnsureSteps => "restUpdateVariantOptions" \notin inv[i].did
        /\ "metafieldsSet" \in inv[i].did => inv[i].pc = "done"

\* C22 as amended: in an invocation the remote operations happen in the
\* order product fetch, rewrite, classification, product update, option
\* names, variant updates, then branch ensure and membership attach for each
\* pick, and last the flag write: no ensure or attach call is issued before
\* the variant updates of the invocation have completed
C22_RemapBeforeEnsureAndAttach ==
    \A i \in Invocations :
        /\ inv[i].did # {} => "openAIRewrite" \in inv[i].did
        /\ inv[i].pc = "pick" => inv[i].did = {"openAIRewrite"}
        /\ inv[i].did \cap Writes # {} => inv[i].pc \notin {"rewrite", "pick"}
        /\ inv[i].pc \in {"update", "options", "variant"}
              => inv[i].did \cap (EnsureCalls \cup {"metafieldsSet"}) = {}
        /\ inv[i].pc = "variant" => "productUpdate" \in inv[i].did
        /\ (inv[i].pc \in EnsureSteps \/ inv[i].did \cap EnsureCalls # {})
              => {"productUpdate", "restUpdateVariantOptions"} \subseteq inv[i].did
        /\ inv[i].pc \in EnsureSteps => "metafieldsSet" \notin inv[i].did
        /\ inv[i].pc = "collect" => "collectionMetafields" \in inv[i].did
        /\ "metafieldsSet" \in inv[i].did => inv[i].pc = "done"

\* An invocation ran to the end through every stage
C22_RanThroughEveryStage ==
    \E i \in Invocations :
        /\ inv[i].pc = "done" /\ inv[i].body = "OK"
        /\ {"aiPickCollectionSlugs", "productUpdate", "restUpdateProductOptions",
            "restUpdateVariantOptions", "restCreateCustomCollection",
            "restCreateCollect", "metafieldsSet"} \subseteq inv[i].did

\* C23: restCreateCollect returns normally and creates no second record when
\* the store answers 422 'already exists'; it creates the record on 201;
\* every other answer (a 422 with another message, a 429 left after the
\* retries, a 500) raises
C23_CollectConflictIsSuccess ==
    /\ [](NoRepeat(store.collects))
    /\ [][\A i \in Invocations :
            (inv[i].pc = "collect" /\ inv'[i] # inv[i]) =>
               \/ /\ inv'[i].failedAt = ""
                  /\ inv'[i].collect = "422 already exists"
                  /\ has(store.collects, inv[i].ensured[inv[i].n].id)
                  /\ store' = store
               \/ /\ inv'[i].failedAt = ""
                  /\ inv'[i].collect = "201"
                  /\ store'.collects = Append(store.collects, inv[i].ensured[inv[i].n].id)
               \/ /\ inv'[i].failedAt = "collect"
                  /\ inv'[i].answer \in {"422 other", "429", "500"}
                  /\ inv'[i].status = 500
                  /\ store' = store]_vars

\* An attach was answered 422 'already exists' and the invocation went on
C23_WentOnAfterConflict ==
    \E i \in Invocations :
        /\ inv[i].collect = "422 already exists"
        /\ inv[i].pc \in {"collect", "flag"}

\* C25: an image step that fails for a node, or a metafield write that the
\* store rejects, does not stop ensureBranchAndTaxonomy: no invocation fails
\* by it, every node of the branch is ensured, every other metafield write is
\* made and the attach gets all n nodes
C25_ImageAndMetafieldFailuresSwallowed ==
    \A i \in Invocations :
        /\ inv[i].answer \notin {"image", "metafield"}
        /\ inv[i].did \cap {"image failed", "metafields failed"} # {} =>
              /\ inv[i].pc \in {"metafields", "collect"} =>
                    /\ Len(inv[i].ensured) = Len(inv[i].branch)
                    /\ \A k \in 1..Len(inv[i].ensured) :
                          /\ byId(store.colls, inv[i].ensured[k].id) # Null
                          /\ inv[i].ensured[k].title = nodeName(inv[i].branch[k])
              /\ inv[i].pc = "collect" =>
                    \A k \in 1..Len(inv[i].ensured) :
                       /\ byId(store.colls, inv[i].ensured[k].id).mf.level = k - 1
                       /\ byId(store.colls, inv[i].ensured[k].id).mf.node_slug
                             = inv[i].ensured[k].node_slug
              /\ inv[i].pc = "done" /\ inv[i].failedAt = "" => inv[i].body = "OK"

\* The image step of the first node of a branch failed and the whole branch
\* was ensured and attached
C25_AttachedAfterImageFailure ==
    \E i \in Invocations :
        /\ "image failed" \in inv[i].did
        /\ inv[i].pc = "collect"
        /\ inv[i].n = Len(inv[i].ensured)
        /\ Len(inv[i].ensured) >= 2
        /\ byId(store.colls, inv[i].ensured[1].id).image = NoImage

\* C35: when the combined tags of the product hold the universal tag or do
\* not name exactly one brand, no invocation ensures a branch of a brand and
\* the product is attached to no collection of a brand, whether the branch
\* would come from the slug picks or from the collections named.
C35_GuardSuppressesBrandBranches ==
    isUniversalOrMultiBrand(store.product, ai.out) =>
        /\ \A i \in Invocations : inv[i].branch = <<>>
        /\ store.colls = <<>>
        /\ store.collects = <<>>

\* C37: when two invocations ensure the same branch, however their remote
\* calls interleave, the store holds at most one collection per normalised
\* title and both invocations attach the product to the same collections.
C37_InterleavedEnsuresAgree ==
    /\ \A k, l \in 1..Len(store.colls) :
          k # l => normalizeForMatch(store.colls[k].title)
                      # normalizeForMatch(store.colls[l].title)
    /\ \A i, j \in Invocations :
          (/\ inv[i].pc = "collect" /\ inv[j].pc = "collect"
           /\ inv[i].branch = inv[j].branch)
              => idsOf(inv[i].ensured) = idsOf(inv[j].ensured)

\* C26: a variant update that is answered 404 is tried again, 3 times in
\* all; when the third try is answered 404 too the failure propagates: the
\* invocation answers 500 and does not write the processed flag
C26_Persistent404Is500 ==
    \A i \in Invocations :
        /\ inv[i].tries < VariantTries
        /\ "variant404" \in inv[i].did =>
              /\ inv[i].pc = "done"
              /\ inv[i].status = 500
              /\ "metafieldsSet" \notin inv[i].did

\* C28: an invocation sends one response and does nothing after it; a step
\* that raises ends the invocation with 500 'Error', and the step that raises
\* leaves the store as the writes before it made it
C28_OneResponseNoRollback ==
    /\ [](\A i \in Invocations :
            /\ inv[i].pc = "done" <=> inv[i].status # 0
            /\ inv[i].failedAt # "" =>
                  /\ inv[i].pc = "done"
                  /\ inv[i].status = 500
                  /\ inv[i].body = "Error")
    /\ [][\A i \in Invocations :
            /\ inv[i].pc = "done" => inv'[i] = inv[i]
            /\ (inv[i].failedAt = "" /\ inv'[i].failedAt # "") => store' = store]_vars

\* An invocation failed at an attach after the product was updated and the
\* collections were created: they are in the store, the flag is not
C28_FailedWithWritesInPlace ==
    \E i \in Invocations :
        /\ inv[i].failedAt = "collect"
        /\ store.enriched > 0
        /\ store.colls # <<>>
        /\ store.processed = ""

\* C7: every slug whose branch the handler ensures or attaches is one of the
\* leaf slugs offered to the service for the detected brand
C7_EnsuredSlugsInWhitelist ==
    \A i \in Invocations :
        (inv[i].pc \in {"find", "create", "metafields", "collect"} /\ bySlug(inv[i])) =>
            inv[i].slugPicks[inv[i].pick] \in allowedLeaves(taxonomia, inv[i].brand)

-----------------------------------------------------------------------------
(* SpecRemap: the variant remapper on products, variants and answers       *)

\* Longest out.options of an answer
MaxOutOptions == 2

RemapOptions ==
    {<<Option("Color", 1, <<"Black", "White">>)>>,
     <<Option("Color", 1, <<"Black", "White">>), Option("Size", 2, <<"S">>)>>}

\* A variant selects one value per option; "Gone" is in no value list
RemapVariants(options) ==
    {Variant(1, [j \in 1..Len(options) |-> Selected(options[j].name, sel[j])]) :
       sel \in {q \in [1..Len(options) -> {"Black", "White", "S", "Gone"}] :
                  \A j \in 1..Len(options) :
                      q[j] = "Gone" \/ has(options[j].values, q[j])}}

OutOptionEntries ==
    {OutOption(name, position, hasValues, values) :
       name \in {"", "Farba"}, position \in {NoPosition, 1, 2},
       hasValues \in {TRUE}, values \in {<<"cierna">>, <<"cierna", "biela">>}}
    \cup {OutOption(name, position, FALSE, <<>>) :
            name \in {"", "Farba"}, position \in {NoPosition, 1, 2}}

RemapInit ==
    /\ \E options \in RemapOptions, outOptions \in SeqsUpTo(OutOptionEntries, MaxOutOptions) :
         \E v \in RemapVariants(options) :
            rm = [options |-> options, outOptions |-> outOptions,
                  variant |-> v,
                  sent |-> FALSE, payload |-> <<>>]
    /\ store = 0 /\ events = 0 /\ inv = 0 /\ ai = 0 /\ ens = 0 /\ rl = 0 /\ wp = 0 /\ tx = 0 /\ fr = 0 /\ md = 0 /\ pf = 0

\* The body of the loop over the variants: option1..option3 are computed and
\* sent with restUpdateVariantOptions
RemapVariant ==
    /\ ~rm.sent
    /\ rm' = [rm EXCEPT !.sent = TRUE,
                        !.payload = variantPayload(rm.options, rm.outOptions, rm.variant)]
    /\ UNCHANGED <<store, events, inv, ai, ens, rl, wp, tx, fr, md, pf>>

SpecRemap == RemapInit /\ [][RemapVariant]_vars

\* The place of entry i of out.options among the named entries
rankAmongNamed(outOptions, i) ==
    Cardinality({j \in 1..i : outOptions[j].name # ""})

\* C39: for every entry of out.options that has a name and a list of values,
\* the position under which the option is renamed is the position under which
\* the list is stored, also when other entries have no name or no position.
C39_RenameAndValuesSamePosition ==
    rm.sent =>
        \A i \in 1..Len(rm.outOptions) :
            (rm.outOptions[i].name # "" /\ rm.outOptions[i].hasValues) =>
                optionNamesOf(rm.outOptions)[rankAmongNamed(rm.outOptions, i)].position
                    = positionOf(rm.outOptions[i], i)

\* C8: the value sent for a selected option is the entry at index k of the
\* replacement list stored for the position of the option, when there is such
\* a list, the old value is at index k of the values of the option and the
\* list has an entry at k; otherwise it is the old value
C8_RemapByIndexOrPassthrough ==
    rm.sent =>
        \A j \in 1..Len(rm.variant.selectedOptions) :
            LET so   == rm.variant.selectedOptions[j]
                pos  == CHOOSE q \in 1..Len(rm.options) : rm.options[q].name = so.name
                e    == newValuesEntry(rm.outOptions, pos)
                K    == IF e = 0 THEN {}
                        ELSE {k \in 1..Len(rm.options[pos].values) :
                                 /\ rm.options[pos].values[k] = so.value
                                 /\ k <= Len(rm.outOptions[e].values)}
            IN  /\ pos \in DOMAIN rm.payload
                /\ IF K = {} THEN rm.payload[pos] = so.value
                   ELSE \E k \in K : rm.payload[pos] = rm.outOptions[e].values[k]

\* One value was replaced, and another was passed through although a
\* replacement list exists for its position
C8_RemappedAndPassedThrough ==
    /\ rm.sent
    /\ \E j \in 1..Len(rm.variant.selectedOptions) :
          rm.payload[j] # rm.variant.selectedOptions[j].value
    /\ \E j \in 1..Len(rm.variant.selectedOptions) :
          /\ newValuesEntry(rm.outOptions, j) # 0
          /\ rm.payload[j] = rm.variant.selectedOptions[j].value

-----------------------------------------------------------------------------
(* SpecRate: callers of the remote store and the minimum-interval gate     *)

\* rateLimit(minIntervalMs = 600)
MinIntervalMs == 600

\* The clock advances in steps of TickMs, MaxTicks times
TickMs == 300

MaxTicks == 5

\* Invocations that run in the process at once
MaxCallers == 2

Callers == 1..MaxCallers

\* Date.now() when the first invocation starts: later than one interval
BootMs == MinIntervalMs

\* The remote calls of one invocation, in the order of the handler, each with
\* the number of times rateLimit is awaited before its fetch: gql and
\* restUpdateVariantOptions fetch directly, fetchWithRetry awaits the gate
\* once, restCreateCollect awaits it and then calls fetchWithRetry
CallSites ==
    <<[name |-> "productUpdate", gates |-> 0],
      [name |-> "restUpdateVariantOptions", gates |-> 0],
      [name |-> "restFindCustomCollectionByTitle", gates |-> 1],
      [name |-> "restCreateCollect", gates |-> 2]>>

gatesAt(k) == IF k <= Len(CallSites) THEN CallSites[k].gates ELSE 0

\* The wait with Math.min in place of Math.max
waitOf_min(now, lastCallAt, minIntervalMs) == Min(0, minIntervalMs - (now - lastCallAt))

\* wait = Math.max(0, minIntervalMs - (now - __lastShopifyCallAt))
waitOf(now, lastCallAt, minIntervalMs) == Max(0, minIntervalMs - (now - lastCallAt))

NoCall == [at |-> 0, gated |-> TRUE, by |-> 0]

CallerIdle == [site |-> 1, gates |-> gatesAt(1), pc |-> "ready", wakeAt |-> 0,
               passes |-> 0, pass |-> 0, prevPass |-> 0]

RateInit ==
    /\ rl = [now |-> BootMs, ticks |-> 0, lastShopifyCallAt |-> 0,
             callers |-> [c \in Callers |-> CallerIdle],
             calls |-> 0, call |-> NoCall, prevCall |-> NoCall, ungated |-> 0]
    /\ store = 0 /\ events = 0 /\ inv = 0 /\ ai = 0 /\ ens = 0 /\ rm = 0 /\ wp = 0 /\ tx = 0 /\ fr = 0 /\ md = 0 /\ pf = 0

\* The fetch of the call site starts
started(r, c, gated) ==
    [r EXCEPT !.calls = @ + 1, !.prevCall = r.call,
              !.call = [at |-> r.now, gated |-> gated, by |-> c],
              !.ungated = IF gated THEN @ ELSE @ + 1,
              !.callers[c].site = @ + 1,
              !.callers[c].gates = gatesAt(r.callers[c].site + 1)]

\* __lastShopifyCallAt = Date.now(), rateLimit returns; after the last gate of
\* the call site its fetch starts
passed(r, c) ==
    LET r1 == [r EXCEPT !.lastShopifyCallAt = r.now,
                        !.callers[c].pc = "ready",
                        !.callers[c].gates = @ - 1,
                        !.callers[c].passes = @ + 1,
                        !.callers[c].prevPass = r.callers[c].pass,
                        !.callers[c].pass = r.now]
    IN  IF r1.callers[c].gates = 0 THEN started(r1, c, TRUE) ELSE r1

\* rateLimit up to its await: the wait is computed, and with no wait the gate
\* is passed at once
RateLimit(c) ==
    /\ rl.callers[c].pc = "ready" /\ rl.callers[c].gates > 0
    /\ LET wait == waitOf(rl.now, rl.lastShopifyCallAt, MinIntervalMs)
       IN  rl' = IF wait > 0
                 THEN [rl EXCEPT !.callers[c].pc = "sleeping",
                                 !.callers[c].wakeAt = rl.now + wait]
                 ELSE passed(rl, c)
    /\ UNCHANGED <<store, events, inv, ai, ens, rm, wp, tx, fr, md, pf>>

\* The timer of sleep(wait) fires, not before its time
Wake(c) ==
    /\ rl.callers[c].pc = "sleeping" /\ rl.now >= rl.callers[c].wakeAt
    /\ rl' = passed(rl, c)
    /\ UNCHANGED <<store, events, inv, ai, ens, rm, wp, tx, fr, md, pf>>

\* A call site that fetches directly
Fetch(c) ==
    /\ rl.callers[c].pc = "ready" /\ rl.callers[c].gates = 0
    /\ rl.callers[c].site <= Len(CallSites)
    /\ rl' = started(rl, c, FALSE)
    /\ UNCHANGED <<store, events, inv, ai, ens, rm, wp, tx, fr, md, pf>>

Tick ==
    /\ rl.ticks < MaxTicks
    /\ rl' = [rl EXCEPT !.now = @ + TickMs, !.ticks = @ + 1]
    /\ UNCHANGED <<store, events, inv, ai, ens, rm, wp, tx, fr, md, pf>>

RateNext ==
    \/ \E c \in Callers : RateLimit(c) \/ Wake(c) \/ Fetch(c)
    \/ Tick

SpecRate == RateInit /\ [][RateNext]_vars

\* C9: two consecutive passes of one caller through the gate are at least
\* the minimum interval apart
C9_ConsecutivePassesSpaced ==
    \A c \in Callers :
        rl.callers[c].passes >= 2 =>
            rl.callers[c].pass - rl.callers[c].prevPass >= MinIntervalMs

\* A caller went through the gate three times in a row
C9_PassedThreeTimes ==
    \E c \in Callers : rl.callers[c].passes = 3

\* C10: every call to the remote store went through the gate first, and two
\* calls that follow each other start at least the minimum interval apart
C10_AllCallsGatedAndSpaced ==
    /\ rl.ungated = 0
    /\ rl.calls >= 2 => rl.call.at - rl.prevCall.at >= MinIntervalMs


-----------------------------------------------------------------------------
(* SpecFetch: one call of fetchWithRetry on a clock. The remote store      *)
(* answers each request with a status, or the request fails on the network *)

\* fetchWithRetry(url, opts = {}, retries = 3)
DefaultRetries == 3

\* res.status of a rate-limit rejection
TooManyRequests == 429

\* const backoff = 500 * (attempt + 1)
BackoffMs == 500

\* What a request may bring: a status of the store, or 0 when fetch rejects
FetchAnswers == {200, 404, TooManyRequests, 500, 0}

\* The backoff that does not grow with the attempt
backoffOf_flat(attempt) == BackoffMs

backoffOf(attempt) == BackoffMs * (attempt + 1)

FetchInit ==
    /\ \E retries \in 0..DefaultRetries, last \in {0, BootMs - TickMs} :
          fr = [retries |-> retries, attempt |-> 0, pc |-> "rateLimit",
                now |-> BootMs, wakeAt |-> 0, lastShopifyCallAt |-> last,
                sent |-> <<>>, got |-> <<>>, answers |-> <<>>, slept |-> <<>>,
                res |-> 0]
    /\ store = 0 /\ events = 0 /\ inv = 0 /\ ai = 0 /\ ens = 0 /\ rm = 0 /\ rl = 0
    /\ wp = 0 /\ tx = 0 /\ md = 0 /\ pf = 0

\* await rateLimit(), up to its await
FetchGate ==
    /\ fr.pc = "rateLimit"
    /\ LET wait == waitOf(fr.now, fr.lastShopifyCallAt, MinIntervalMs)
       IN  fr' = IF wait > 0
                 THEN [fr EXCEPT !.pc = "gate sleep", !.wakeAt = fr.now + wait]
                 ELSE [fr EXCEPT !.pc = "fetch", !.lastShopifyCallAt = fr.now]
    /\ UNCHANGED <<store, events, inv, ai, ens, rm, rl, wp, tx, md, pf>>

\* The timer of rateLimit fires: __lastShopifyCallAt = Date.now()
FetchGateWake ==
    /\ fr.pc = "gate sleep" /\ fr.now >= fr.wakeAt
    /\ fr' = [fr EXCEPT !.pc = "fetch", !.lastShopifyCallAt = fr.now]
    /\ UNCHANGED <<store, events, inv, ai, ens, rm, rl, wp, tx, md, pf>>

\* The request is over, with the status it brought
answered(f, status, now) ==
    LET f1 == [f EXCEPT !.sent = Append(@, f.now), !.got = Append(@, now),
                        !.answers = Append(@, status), !.now = now]
    IN  IF status = 0 THEN [f1 EXCEPT !.pc = "raised"]
        ELSE IF status # TooManyRequests THEN [f1 EXCEPT !.pc = "returned", !.res = status]
        ELSE IF f.attempt >= f.retries THEN [f1 EXCEPT !.pc = "returned", !.res = status]
        ELSE [f1 EXCEPT !.pc = "backoff", !.wakeAt = now + backoffOf(f.attempt),
                        !.slept = Append(@, backoffOf(f.attempt))]

\* const res = await fetch(url, opts) and the two tests that follow it; the
\* request takes no time or one tick
FetchRequest ==
    /\ fr.pc = "fetch"
    /\ \E status \in FetchAnswers, took \in {0, TickMs} :
          fr' = answered(fr, status, fr.now + took)
    /\ UNCHANGED <<store, events, inv, ai, ens, rm, rl, wp, tx, md, pf>>

\* The timer of sleep(backoff) fires: attempt++ and the loop turns
FetchBackoffWake ==
    /\ fr.pc = "backoff" /\ fr.now >= fr.wakeAt
    /\ fr' = [fr EXCEPT !.pc = "rateLimit", !.attempt = @ + 1]
    /\ UNCHANGED <<store, events, inv, ai, ens, rm, rl, wp, tx, md, pf>>

\* The clock, while a timer is pending
FetchTick ==
    /\ fr.pc \in {"gate sleep", "backoff"} /\ fr.now < fr.wakeAt
    /\ fr' = [fr EXCEPT !.now = @ + TickMs]
    /\ UNCHANGED <<store, events, inv, ai, ens, rm, rl, wp, tx, md, pf>>

FetchNext ==
    \/ FetchGate
    \/ FetchGateWake
    \/ FetchRequest
    \/ FetchBackoffWake
    \/ FetchTick

\* Timers fire and every request ends
SpecFetch == FetchInit /\ [][FetchNext]_vars /\ WF_vars(FetchNext)

\* C27: the first answer other than 429 is returned with no further request;
\* the k-th rejection is followed by a sleep of 500*k ms, and the next request
\* is not sent before it is over; no more than retries+1 requests are sent,
\* after which the last 429 answer is returned; every call ends.
C27_RetryOn429Bounded ==
    /\ [](/\ Len(fr.answers) <= fr.retries + 1
          /\ \A k \in 1..(Len(fr.answers) - 1) : fr.answers[k] = TooManyRequests
          /\ fr.pc = "returned" =>
                /\ fr.res = fr.answers[Len(fr.answers)]
                /\ fr.res = TooManyRequests => Len(fr.answers) = fr.retries + 1
          /\ fr.pc \in {"rateLimit", "gate sleep", "fetch"} => Len(fr.slept) = Len(fr.answers)
          /\ \A k \in 1..Len(fr.slept) :
                /\ fr.slept[k] = 500 * k
                /\ k < Len(fr.sent) => fr.sent[k + 1] - fr.got[k] >= 500 * k)
    /\ <>(fr.pc \in {"returned", "raised"})

\* Three rejections, each waited for, and the fourth answer, a rejection
\* again, handed to the caller
C27_GaveUpAfterFourRequests ==
    /\ fr.pc = "returned" /\ fr.res = TooManyRequests
    /\ Len(fr.answers) = 4 /\ fr.slept = <<500, 1000, 1500>>


(***************************************************************************)
(* waitForProduct and the head of the handler, one product read at a time. *)
(* A read raises, answers without a product, or observes the product       *)
(* (with or without the processed flag).                                    *)
(***************************************************************************)
Attempts == 12

\* data?.product is truthy
observes(o) == o \in {"unprocessed", "processed"}

mayRead_offByOne(i, attempts) == i <= attempts

\* the loop condition of waitForProduct
mayRead(i, attempts) == i < attempts

WaitInit ==
    /\ wp = [pc |-> "polling", i |-> 0, log |-> <<>>, p |-> "null",
             status |-> 0, body |-> "", did |-> {}]
    /\ store = 0 /\ events = 0 /\ inv = 0 /\ ai = 0 /\ ens = 0 /\ rm = 0 /\ rl = 0 /\ tx = 0 /\ fr = 0 /\ md = 0 /\ pf = 0

\* one iteration of the loop: getProduct, then return or sleep
GetProduct ==
    /\ wp.pc = "polling"
    /\ mayRead(wp.i, Attempts)
    /\ \E o \in {"raise", "null", "unprocessed", "processed"} :
          wp' = IF observes(o)
                THEN [wp EXCEPT !.log = Append(@, o), !.p = o, !.pc = "returned"]
                ELSE [wp EXCEPT !.log = Append(@, o), !.i = @ + 1]
    /\ UNCHANGED <<store, events, inv, ai, ens, rm, rl, tx, fr, md, pf>>

\* the loop ran out: waitForProduct returns null and the handler answers
NotReady ==
    /\ wp.pc = "polling"
    /\ ~mayRead(wp.i, Attempts)
    /\ wp' = [wp EXCEPT !.pc = "done", !.status = 202,
                        !.body = "Product not ready yet"]
    /\ UNCHANGED <<store, events, inv, ai, ens, rm, rl, tx, fr, md, pf>>

\* the handler with a product in hand: the processed test, then the rewrite
AfterWait ==
    /\ wp.pc = "returned"
    /\ wp' = IF wp.p = "processed"
             THEN [wp EXCEPT !.pc = "done", !.status = 200,
                             !.body = "Already processed"]
             ELSE [wp EXCEPT !.pc = "rewritten",
                             !.did = @ \cup {"openAIRewrite"}]
    /\ UNCHANGED <<store, events, inv, ai, ens, rm, rl, tx, fr, md, pf>>

SpecWait == WaitInit /\ [][GetProduct \/ NotReady \/ AfterWait]_vars

\* C11: waitForProduct issues at most Attempts (12) product reads; a read
\* that raises counts as not observing the product; the product returned is
\* that of the first read that observes it; when no read observes it the
\* handler answers 202 "Product not ready yet" and has issued no generative
\* call and no write.
C11_BoundedPollThenNotReady ==
  LET observedIn(log) == \E k \in 1..Len(log) : observes(log[k])
  IN
    /\ Len(wp.log) <= Attempts
    /\ \A k \in 1..(Len(wp.log) - 1) : ~observes(wp.log[k])
    /\ wp.pc = "returned" => /\ wp.log # <<>>
                             /\ wp.p = wp.log[Len(wp.log)]
                             /\ observes(wp.p)
    /\ (wp.pc = "polling" /\ "raise" \in {wp.log[k] : k \in 1..Len(wp.log)})
          => wp.i = Len(wp.log)
    /\ (wp.pc = "done" /\ ~observedIn(wp.log))
          => /\ Len(wp.log) = Attempts
             /\ wp.status = 202
             /\ wp.body = "Product not ready yet"
             /\ wp.did = {}
    /\ wp.status = 202 => ~observedIn(wp.log)
    /\ wp.did # {} => observedIn(wp.log)

C11_NotReadyAfterRaises ==
    /\ wp.pc = "done"
    /\ wp.status = 202
    /\ Len(wp.log) = Attempts
    /\ wp.log[1] = "raise"
    /\ wp.log[Attempts] = "null"


-----------------------------------------------------------------------------
(* SpecTax: the taxonomy cache, the lookups, the tag fallback and the       *)
(* collection table of part_002, called in any order by any invocation     *)

\* Most calls of a run
MaxCalls == 3

\* A template whose nodes are given by name: the root's name has a text
\* around the placeholder, the first child's name holds the placeholder
\* twice; the second child has the node_slug of the first, and a child of
\* its own whose name has the normalised form of its parent's
NamedRootFile ==
    [kind |-> "json",
     raw |-> [BRANDS   |-> <<Str.AUDI, Str.BMW>>,
              TEMPLATE |->
                 RawNode(<<"D","i","e","l","y"," ","{{BRAND}}">>, <<>>, "", "",
                    << RawNode(<<"{{BRAND}}","en-","{{BRAND}}"," ">> \o Str.Exterier,
                               <<>>, "exterier", "", <<>>),
                       RawNode(<<"{{BRAND}}"," ">> \o Str.Exterier, <<>>, "exterier", "",
                          << RawNode(<<"{{BRAND}}"," ","e","x","t","e","r","i","e","r">>,
                                     <<>>, "kryty", "", <<>>) >>) >>)]]

\* Leaf names asked for: spellings of the same names, and a name of no node
LeafNames ==
    {Str.AUDI \o <<" ">> \o Str.Exterier,
     <<"a","u","d","i"," ","e","x","t","e","r","i","e","r">>,
     <<" ","A","u","d","i","tab"," ","E","X","T","E","R","I","E'","R"," ">>,
     <<"A","U","D","I","en-","A","U","D","I"," ">> \o Str.Exterier,
     <<"a","u","d","i","-","a","u","d","i"," "," ","e","x","t","e","r","i","e'","r">>,
     <<"A","U","D","I","em-","A","U","D","I"," ">> \o Str.Exterier,
     Str.Volanty,
     <<"Z","a","h","r","a","d","a">>}

\* body.tags of the event: a JSON array, or the comma separated text in which
\* the platform sends the tags of a product; items are the tags either way
EventTags ==
    {[isArray |-> TRUE,  items |-> <<Str.Audi, Str.Audi \o <<" ">> \o Str.Exterier>>],
     [isArray |-> FALSE, items |-> <<Str.Audi, Str.Audi \o <<" ">> \o Str.Exterier>>],
     [isArray |-> TRUE,  items |-> <<Str.Audi, <<"v","o","l","a","n","t"," ","i","n","t","e","r","i","e'","r">>>>],
     [isArray |-> TRUE,  items |-> <<<<"B","M","W">>, <<"B","r","z","d","y">>>>],
     [isArray |-> TRUE,  items |-> <<Str.BMW>>],
     [isArray |-> TRUE,  items |-> <<Str.Audi \o <<" ">> \o Str.Exterier>>],
     [isArray |-> TRUE,  items |-> <<Str.Univerzalny, Str.Interier>>],
     [isArray |-> TRUE,  items |-> <<<<"F","o","r","d">>, Str.Exterier>>]}

\* The guess of the tag fallback: deriveLeafFromTags on
\* Array.isArray(tags) ? tags : []
guessOf(tags) == deriveLeafFromTags(IF tags.isArray THEN tags.items ELSE <<>>)

\* The tag fallback that keeps its guess whatever the taxonomy holds
tagFallback_unvalidated(tax, tags) ==
    IF guessOf(tags) # <<>> THEN <<guessOf(tags)>> ELSE <<>>

\* The tag fallback for an answer without collections: the guess from the
\* tags of the event, kept when the taxonomy has a branch for it
tagFallback(tax, tags) ==
    IF guessOf(tags) # <<>> /\ getTaxonomyBranchNodesFromLeaf(tax, guessOf(tags)) # <<>>
    THEN <<guessOf(tags)>>
    ELSE <<>>

TaxInit ==
    /\ \E file \in {TaxonomiaFile, NamedRootFile} \cup BrokenFiles, mapFile \in BOOLEAN :
          tx = [file |-> file, loaded |-> FALSE, taxonomia |-> <<>>, reads |-> 0,
                calls |-> 0, loads |-> 0, op |-> "", got |-> <<>>, name |-> <<>>,
                brand |-> <<>>, slug |-> "",
                tags |-> [isArray |-> TRUE, items |-> <<>>], result |-> <<>>,
                mapFile |-> mapFile, mapLoaded |-> FALSE, byTitle |-> {}]
    /\ store = 0 /\ events = 0 /\ inv = 0 /\ ai = 0 /\ ens = 0 /\ rm = 0 /\ rl = 0 /\ wp = 0 /\ fr = 0 /\ md = 0 /\ pf = 0

\* One more call that went through loadTaxonomia and got its forest
called(t, op) ==
    [t EXCEPT !.calls = @ + 1, !.loads = @ + 1, !.op = op, !.got = t.taxonomia]

\* getTaxonomyBranchNodesFromLeaf(name) or getBranchBySlug(brand, slug),
\* each of which calls loadTaxonomia first
Lookup ==
    /\ tx.calls < MaxCalls
    /\ \/ \E name \in LeafNames :
            tx' = [called(load(tx), "leaf") EXCEPT
                     !.name = name,
                     !.result = getTaxonomyBranchNodesFromLeaf(loadTaxonomia(tx), name)]
       \/ \E brand \in {Str.AUDI, <<"b","m","w">>, <<"F","o","r","d">>},
             slug \in {"exterier", "volanty", "kryty", "zahrada"} :
            tx' = [called(load(tx), "slug") EXCEPT
                     !.brand = brand,
                     !.slug = slug,
                     !.result = getBranchBySlug(loadTaxonomia(tx), brand, slug)]
    /\ UNCHANGED <<store, events, inv, ai, ens, rm, rl, wp, fr, md, pf>>

\* The tag fallback of the handler on the tags of an event; the taxonomy is
\* consulted, and so loaded, only when the tags give a guess
TagFallback ==
    /\ tx.calls < MaxCalls
    /\ \E tags \in EventTags :
          tx' = [(IF guessOf(tags) = <<>>
                  THEN [tx EXCEPT !.calls = @ + 1, !.op = "tags"]
                  ELSE called(load(tx), "tags")) EXCEPT
                   !.tags = tags,
                   !.result = tagFallback(loadTaxonomia(tx), tags)]
    /\ UNCHANGED <<store, events, inv, ai, ens, rm, rl, wp, fr, md, pf>>

\* resolveCollectionIdByTitle of part_002: ensureCollectionsCache fills the
\* table from collections-map.json once, and raises as long as it cannot
ResolveCollectionIdByTitle ==
    /\ tx.calls < MaxCalls
    /\ tx' = IF tx.mapLoaded THEN [tx EXCEPT !.calls = @ + 1, !.op = "resolve"]
             ELSE IF tx.mapFile
             THEN [tx EXCEPT !.calls = @ + 1, !.op = "resolve", !.mapLoaded = TRUE,
                             !.byTitle = {[title |-> normalizeForMatch(Str.AUDI), id |-> 1]}]
             ELSE [tx EXCEPT !.calls = @ + 1, !.op = "resolve raised"]
    /\ UNCHANGED <<store, events, inv, ai, ens, rm, rl, wp, fr, md, pf>>

SpecTax == TaxInit /\ [][Lookup \/ TagFallback \/ ResolveCollectionIdByTitle]_vars


\* C17: the taxonomy definition is read and parsed at most once; once the
\* first load has returned, whether it gave a forest or failed, every later
\* call returns that same forest and no step changes the cached taxonomy;
\* the collection title-to-id table does not change once it is populated
C17_CachesPopulatedOnce ==
    /\ [](tx.reads <= 1 /\ (tx.loaded => tx.got = tx.taxonomia))
    /\ [][/\ tx.loaded => /\ tx'.loaded
                          /\ tx'.taxonomia = tx.taxonomia
                          /\ tx'.got = tx.got
          /\ tx.mapLoaded => /\ tx'.mapLoaded
                             /\ tx'.byTitle = tx.byTitle]_vars

\* Three calls went through the load of a definition that failed, one read
C17_CalledAgainAfterFailedLoad ==
    /\ tx.file \in BrokenFiles
    /\ tx.loads = MaxCalls
    /\ tx.reads = 1

\* The node is the template node with its name, placeholder replaced, and
\* its children are the template's children, in order, expanded alike
RECURSIVE expandedFrom(_, _, _)
expandedFrom(node, tpl, brand) ==
    /\ node.name = replaceBrandTokens(nodeName(tpl), brand)
    /\ ~has(node.name, "{{BRAND}}")
    /\ Len(node.children) = Len(tpl.children)
    /\ \A k \in 1..Len(tpl.children) :
          expandedFrom(node.children[k], tpl.children[k], brand)

\* C18: for a definition {BRANDS, TEMPLATE} the load returns one root per
\* brand, in brand order, each root being the template tree, of the same
\* shape, with every occurrence of the placeholder in every node name
\* replaced by the brand
C18_TemplateExpandedPerBrand ==
    (tx.loaded /\ tx.file \in {TaxonomiaFile, NamedRootFile}) =>
        /\ Len(taxonomia) = Len(tx.file.raw.BRANDS)
        /\ \A i \in 1..Len(taxonomia) :
              expandedFrom(taxonomia[i], tx.file.raw.TEMPLATE, tx.file.raw.BRANDS[i])

\* C19: two names of the same normalised form (they differ in letter case,
\* diacritics, surrounding or repeated whitespace, or dash variant) get the
\* same branch from getTaxonomyBranchNodesFromLeaf
C19_SameNormalFormSameBranch ==
    tx.op = "leaf" =>
        \A other \in LeafNames :
            normalizeForMatch(other) = normalizeForMatch(tx.name)
                => getTaxonomyBranchNodesFromLeaf(taxonomia, other) = tx.result

\* The em dash spelling found the node written with an en dash
C19_FoundByOtherDash ==
    /\ tx.op = "leaf"
    /\ tx.name = <<"A","U","D","I","em-","A","U","D","I"," ">> \o Str.Exterier
    /\ Len(tx.result) = 2

RECURSIVE pathsUnder(_, _)
pathsUnder(nodes, prefix) ==
    Flatten([i \in 1..Len(nodes) |->
                <<prefix \o <<nodes[i]>>>>
                   \o pathsUnder(nodes[i].children, prefix \o <<nodes[i]>>)])

\* The path starts at one of the roots and each element is a child of the
\* element before it
descends(roots, path) ==
    /\ \E r \in 1..Len(roots) : roots[r] = path[1]
    /\ \A k \in 2..Len(path) :
          \E c \in 1..Len(path[k-1].children) : path[k-1].children[c] = path[k]

\* The first of the paths whose last node is one of the hits, <<>> without one
firstOf(paths, hits) == IF hits = {} THEN <<>> ELSE paths[leastOf(hits)]

namedLike(paths, want) ==
    {k \in 1..Len(paths) : normalizeForMatch(nodeName(paths[k][Len(paths[k])])) = want}

\* C29: getTaxonomyBranchNodesFromLeaf returns the empty sequence exactly
\* when no node of the forest has the normalised name of the argument, and
\* otherwise the path from a root to the first such node in pre-order depth
\* first order: it starts at a root, each element is a child of the element
\* before it, and the last element is the match
C29_FirstMatchInPreOrder ==
    tx.op = "leaf" =>
        /\ tx.result = <<>>
              <=> namedLike(pathsUnder(taxonomia, <<>>), normalizeForMatch(tx.name)) = {}
        /\ tx.result = firstOf(pathsUnder(taxonomia, <<>>),
                               namedLike(pathsUnder(taxonomia, <<>>), normalizeForMatch(tx.name)))
        /\ tx.result # <<>> =>
              /\ descends(taxonomia, tx.result)
              /\ normalizeForMatch(nodeName(tx.result[Len(tx.result)]))
                    = normalizeForMatch(tx.name)

\* The name of a node and of a child of it was asked for: the node was found
C29_ParentBeforeChild ==
    /\ tx.op = "leaf"
    /\ tx.file = NamedRootFile
    /\ tx.name = <<"a","u","d","i"," ","e","x","t","e","r","i","e","r">>
    /\ Len(tx.result) = 2
    /\ tx.result[2].children # <<>>

\* The brand root of getBranchBySlug, as a forest of one root or none
brandRoots(tax, brandName) ==
    SelectSeq(tax, LAMBDA r : toLowerCase(nodeName(r)) = toLowerCase(brandName))

slugged(paths, nodeSlug) ==
    {k \in 1..Len(paths) : paths[k][Len(paths[k])].node_slug = nodeSlug}

\* C30: getBranchBySlug returns the empty sequence when no node under the
\* brand root has the node_slug, and otherwise the path from the brand root
\* to the first node in depth first order whose node_slug is the slug: each
\* element is a child of the element before it, also when several nodes
\* under the root have that node_slug
C30_SlugBranchIsFirstMatchPath ==
    tx.op = "slug" =>
        /\ tx.result = firstOf(pathsUnder(brandRoots(taxonomia, tx.brand), <<>>),
                               slugged(pathsUnder(brandRoots(taxonomia, tx.brand), <<>>), tx.slug))
        /\ tx.result # <<>> =>
              /\ descends(brandRoots(taxonomia, tx.brand), tx.result)
              /\ tx.result[Len(tx.result)].node_slug = tx.slug

-----------------------------------------------------------------------------
(* SpecModes: the handler that only attaches (collections are looked up in *)
(* collections-map.json, none is created), run to its end under the two    *)
(* feature flags and then once more, on the same inputs, with attachment   *)
(* enabled and the dry run off                                             *)

\* (process.env.X || "true") === "true"
flagOf(env) == (IF env = "" THEN "true" ELSE env) = "true"

\* What the environment may hold for a flag
EnvValues == {"", "true", "false"}

\* The test of DRY_RUN left out of the attach loop
logsOnly_never(flags) == FALSE

\* if (DRY_RUN) in the attach loop
logsOnly(flags) == flags.dry

NormalFlags == [attach |-> TRUE, dry |-> FALSE]

\* collections-map.json: not available, or the records it holds
MapFiles ==
    {[available |-> FALSE, records |-> <<>>],
     [available |-> TRUE,  records |-> <<[title |-> Str.AUDI, id |-> 11]>>],
     [available |-> TRUE,
      records |-> <<[title |-> Str.AUDI, id |-> 11],
                    [title |-> <<"a","u","d","i"," ","e","x","t","e","r","i","e","r">>,
                     id |-> 12]>>]}

\* The slugs the classification picked
SlugPicks == {<<>>, <<"exterier">>, <<"zahrada", "exterier">>}

\* The one remote write of the invocation that is rejected, if any
RejectedWrites == {"", "productUpdate", "restUpdateVariantOptions", "metafieldsSet"}

\* __collectionsByTitle.get(normalizeTitleMatch(title)) || null, the map
\* filled from the file record by record
resolveCollectionIdByTitle(map, title) ==
    LET same(rec) == normalizeForMatch(rec.title) = normalizeForMatch(title)
        hits == SelectSeq(map.records, same)
    IN  IF hits = <<>> THEN 0 ELSE hits[Len(hits)].id

RECURSIVE resolveFrom(_, _, _)
resolveFrom(map, branchNodes, i) ==
    IF i > Len(branchNodes) THEN <<>>
    ELSE LET cid == resolveCollectionIdByTitle(map, nodeName(branchNodes[i]))
         IN  (IF cid = 0 THEN <<>> ELSE <<[id |-> cid, title |-> nodeName(branchNodes[i])]>>)
             \o resolveFrom(map, branchNodes, i + 1)

\* resolveExistingBranchIdsBySlug: no branch in the taxonomy gives [] before
\* the map is asked for; a branch without the map raises
resolveExistingBranchIdsBySlug(map, branchNodes) ==
    IF branchNodes = <<>> THEN [raised |-> FALSE, branch |-> <<>>]
    ELSE IF ~map.available THEN [raised |-> TRUE, branch |-> <<>>]
    ELSE [raised |-> FALSE, branch |-> resolveFrom(map, branchNodes, 1)]

ModeTaxonomia == loadTaxonomia(NoTaxonomia(TaxonomiaFile))

RunStart == [pc |-> "productUpdate", pick |-> 1, node |-> 1, branch |-> <<>>,
             wrote |-> <<>>, members |-> <<>>, status |-> 0, raisedIn |-> ""]

\* The catch of the handler: 500, nothing more is written
caught(run, where) == [run EXCEPT !.pc = "done", !.status = 500, !.raisedIn = where]

\* A remote write of the handler outside the attach loop
written(run, in, call, next) ==
    IF in.rejected = call THEN caught(run, call)
    ELSE [run EXCEPT !.wrote = Append(@, call), !.pc = next]

\* The head of section 3: slug picks, a detected brand and the kill switch
collections(run, in, flags) ==
    IF in.picks = <<>> \/ in.brand = <<>> THEN [run EXCEPT !.pc = "metafieldsSet"]
    ELSE IF ~flags.attach THEN [run EXCEPT !.pc = "metafieldsSet"]
    ELSE [run EXCEPT !.pc = "resolve", !.pick = 1]

resolved(run, r) ==
    IF r.raised THEN caught(run, "resolve")
    ELSE IF r.branch = <<>> THEN [run EXCEPT !.pick = @ + 1]
    ELSE [run EXCEPT !.branch = r.branch, !.node = 1, !.pc = "attach"]

\* One turn of the loop over the slug picks
resolve(run, in) ==
    IF run.pick > Len(in.picks) THEN [run EXCEPT !.pc = "metafieldsSet"]
    ELSE resolved(run, resolveExistingBranchIdsBySlug(in.map,
                          getBranchBySlug(ModeTaxonomia, in.brand, in.picks[run.pick])))

member(call, id) == [call |-> call, id |-> id]

\* One turn of the loop over the nodes of a branch, up to the answer of
\* restCollectExists
attach(run, flags, answer) ==
    IF run.node > Len(run.branch) THEN [run EXCEPT !.pick = @ + 1, !.pc = "resolve"]
    ELSE IF logsOnly(flags) THEN [run EXCEPT !.node = @ + 1]
    ELSE LET asked == [run EXCEPT !.members =
                          Append(@, member("restCollectExists", run.branch[run.node].id))]
         IN  IF answer = "absent" THEN [asked EXCEPT !.pc = "create"]
             ELSE [asked EXCEPT !.node = @ + 1]

\* restCreateCollect, whose failure is caught in the loop
create(run) ==
    [run EXCEPT !.members = Append(@, member("restCreateCollect", run.branch[run.node].id)),
                !.node = @ + 1, !.pc = "attach"]

\* The next step of an invocation under the flags
stepOf(run, in, flags, answer) ==
    CASE run.pc = "productUpdate" -> written(run, in, "productUpdate", "restUpdateProductOptions")
      [] run.pc = "restUpdateProductOptions" ->
            written(run, in, "restUpdateProductOptions", "restUpdateVariantOptions")
      [] run.pc = "restUpdateVariantOptions" ->
            written(run, in, "restUpdateVariantOptions", "collections")
      [] run.pc = "collections" -> collections(run, in, flags)
      [] run.pc = "resolve" -> resolve(run, in)
      [] run.pc = "attach" -> attach(run, flags, answer)
      [] run.pc = "create" -> create(run)
      [] run.pc = "metafieldsSet" ->
            [written(run, in, "metafieldsSet", "done") EXCEPT
                !.status = IF in.rejected = "metafieldsSet" THEN 500 ELSE 200]

ModesInit ==
    /\ \E brand \in {Str.AUDI, <<>>}, picks \in SlugPicks, map \in MapFiles,
          rejected \in RejectedWrites, attachEnv \in EnvValues, dryEnv \in EnvValues :
          md = [in     |-> [brand |-> brand, picks |-> picks, map |-> map,
                            rejected |-> rejected],
                flags  |-> [attach |-> flagOf(attachEnv), dry |-> flagOf(dryEnv)],
                run    |-> RunStart,
                normal |-> RunStart]
    /\ store = 0 /\ events = 0 /\ inv = 0 /\ ai = 0 /\ ens = 0 /\ rm = 0 /\ rl = 0
    /\ wp = 0 /\ tx = 0 /\ fr = 0 /\ pf = 0

\* A step of the invocation under the flags of the environment
RunUnderFlags ==
    /\ md.run.pc # "done"
    /\ \E answer \in {"absent", "exists", "raises"} :
          md' = [md EXCEPT !.run = stepOf(md.run, md.in, md.flags, answer)]
    /\ UNCHANGED <<store, events, inv, ai, ens, rm, rl, wp, tx, fr, pf>>

\* A step of the invocation on the same inputs with attachment enabled and
\* the dry run off
RunNormal ==
    /\ md.run.pc = "done" /\ md.normal.pc # "done"
    /\ \E answer \in {"absent", "exists", "raises"} :
          md' = [md EXCEPT !.normal = stepOf(md.normal, md.in, NormalFlags, answer)]
    /\ UNCHANGED <<store, events, inv, ai, ens, rm, rl, wp, tx, fr, pf>>

SpecModes == ModesInit /\ [][RunUnderFlags \/ RunNormal]_vars

BothDone == md.run.pc = "done" /\ md.normal.pc = "done"

SameWritesAndAnswer ==
    md.run.wrote = md.normal.wrote /\ md.run.status = md.normal.status

\* C21 as stated: with the dry run on or attachment disabled an invocation
\* issues no membership check and no membership create, and its other remote
\* writes and its answer are those of a normal run on the same inputs.
C21_ModesChangeOnlyMembershipCalls ==
    md.flags # NormalFlags =>
        /\ md.run.members = <<>>
        /\ BothDone => SameWritesAndAnswer

\* C21: with the dry run on or attachment disabled an invocation issues no
\* membership check and no membership create. With attachment enabled and the
\* dry run on, its other remote writes and its answer are those of a normal
\* run on the same inputs; with attachment disabled they are those too,
\* unless the normal run fails while it resolves a branch without the
\* collections map: the invocation then goes on to write the processed flag
\* and answers 200.
C21_ModesSkipMembershipCalls ==
    md.flags # NormalFlags =>
        /\ md.run.members = <<>>
        /\ BothDone =>
              \/ SameWritesAndAnswer
              \/ /\ ~md.flags.attach
                 /\ md.normal.raisedIn = "resolve" /\ md.normal.status = 500
                 /\ md.run.wrote = Append(md.normal.wrote, "metafieldsSet")
                 /\ md.run.status = 200

\* A dry run and the normal run on its inputs are over: the normal run asked
\* for two memberships and created one, the dry run agrees with it in
\* everything else
C21_DryRunAgreedWithNormalRun ==
    /\ BothDone /\ md.flags = [attach |-> TRUE, dry |-> TRUE]
    /\ Len(md.normal.members) >= 3
    /\ \E k \in 1..Len(md.normal.members) : md.normal.members[k].call = "restCreateCollect"
    /\ md.normal.status = 200 /\ SameWritesAndAnswer

-----------------------------------------------------------------------------
(* SpecBrand: the brand detection and the universal/multi-brand guard of   *)
(* the handler applied to a product and an answer of the rewrite call      *)

Skoda == <<"S^","k","o","d","a">>

BrandVendors == {<<>>, <<"X">>, Skoda \o <<" ">> \o <<"A","u","t","o">>}

\* A title without a brand, one with 'mini' inside a word, one that ends
\* with a brand
BrandTitles ==
    {Str.Kryt,
     <<"A","l","u","m","i","n","i","u","m"," ","k","r","y","t">>,
     Str.Volanty \o <<" ">> \o Str.AUDI}

BrandTags ==
    {<<>>, <<Skoda>>, <<<<"s","k","o","d","a">>>>, <<Str.BMW, Str.Audi>>,
     <<<<"M","e","r","c","e","d","e","s","-","B","e","n","z">>>>,
     <<Str.Univerzalny, Str.Audi>>}

BrandCollections ==
    {<<toUpperCase(Skoda) \o <<" ">> \o Str.Interier>>,
     <<Str.AUDI \o <<" ">> \o Str.Exterier, <<"D","o","p","l","n","k","y">>>>}

BrandInit ==
    /\ \E vendor \in BrandVendors, title \in BrandTitles, tags \in BrandTags,
          base_tags \in {<<>>, <<Str.Audi>>}, names \in BrandCollections :
          pf = [p   |-> [vendor |-> vendor, title |-> title, tags |-> tags],
                out |-> [base_tags |-> base_tags, subtags |-> <<>>,
                         collections |-> names],
                op |-> "", brand |-> <<>>, guarded |-> <<>>]
    /\ store = 0 /\ events = 0 /\ inv = 0 /\ ai = 0 /\ ens = 0 /\ rm = 0 /\ rl = 0
    /\ wp = 0 /\ tx = 0 /\ fr = 0 /\ md = 0

\* let detectedBrand = detectBrandFromProduct(p, out)
DetectBrand ==
    /\ pf.op = ""
    /\ pf' = [pf EXCEPT !.op = "detect", !.brand = detectBrandFromProduct(pf.p, pf.out)]
    /\ UNCHANGED <<store, events, inv, ai, ens, rm, rl, wp, tx, fr, md>>

\* The guard applied to out.collections
Guard ==
    /\ pf.op = ""
    /\ pf' = [pf EXCEPT !.op = "guard",
                        !.guarded = guardCollections(pf.p, pf.out, pf.out.collections)]
    /\ UNCHANGED <<store, events, inv, ai, ens, rm, rl, wp, tx, fr, md>>

SpecBrand == BrandInit /\ [][DetectBrand \/ Guard]_vars

keysIn(text) == {k \in 1..Len(BrandMap) : includes(text, BrandMap[k].k)}

\* C31: detectBrand returns the label of the first key of the table, in table
\* order, that occurs in the lower-cased text of vendor, title, tags and AI
\* tags, and none exactly when no key occurs.
C31_FirstKeyInTableOrderWins ==
    pf.op = "detect" =>
        LET K == keysIn(toLowerCase(joinWith(
                     SelectSeq(<<pf.p.vendor, pf.p.title>> \o pf.p.tags
                                 \o pf.out.base_tags \o pf.out.subtags,
                               LAMBDA x : x # <<>>), <<" ">>)))
        IN  /\ (pf.brand = <<>>) <=> (K = {})
            /\ K # {} => pf.brand = BrandMap[CHOOSE k \in K : \A j \in K : k <= j].label

\* BMW is the first tag and audi the second: AUDI, the earlier key, is returned
C31_EarlierKeyLaterInText ==
    /\ pf.op = "detect"
    /\ pf.p.tags = <<Str.BMW, Str.Audi>> /\ pf.p.vendor = <<"X">> /\ pf.p.title = Str.Kryt
    /\ pf.brand = Str.AUDI

\* The brands the combined tags name, under either spelling of a brand
brandsNamed(p, out) ==
    {BrandMap[k].label :
        k \in {j \in 1..Len(BrandMap) : has(allTagsNow(p, out), normTag(BrandMap[j].k))}}

\* C40: when the combined tags name exactly one brand, under any accepted
\* spelling, and hold no universal tag, the guard leaves the brand
\* collections in place.
C40_OneBrandKeepsItsCollections ==
    (/\ pf.op = "guard"
     /\ Cardinality(brandsNamed(pf.p, pf.out)) = 1
     /\ ~has(allTagsNow(pf.p, pf.out), normTag(Str.Univerzalny)))
        => pf.guarded = pf.out.collections

-----------------------------------------------------------------------------
(* SpecRefine: autoRefineSlugPicks of the attach-only handler applied to   *)
(* the picks of the classification, the product and the whitelist of       *)
(* leaves. Slugs are split and matched here, so they are texts.            *)

Slug ==
    [ine      |-> <<"i","n","e">>,
     Ine      |-> <<"I","n","e'">>,
     volanty  |-> <<"v","o","l","a","n","t","y">>,
     kryty    |-> <<"k","r","y","t","y","-","z","r","k","a","d","i","e","l">>,
     stierace |-> <<"s","t","i","e","r","a","c","e">>,
     ostatne  |-> <<"i","n","e","_","o","s","t","a","t","n","e">>,
     led      |-> <<"l","e","d">>]

\* String(s||"").toLowerCase().normalize("NFD") without the combining marks
normalizeSimple(x) == stripDiacritics(toLowerCase(x))

\* normalizeSimple([p.title, p.descriptionHtml, ...(p.tags||[])].join(" "))
buildTextForMatch(p) ==
    normalizeSimple(joinWith(<<p.title, p.descriptionHtml>> \o p.tags, <<" ">>))

KEYWORD_TO_SLUG ==
    <<[slug |-> Slug.volanty,
       kws  |-> <<<<"v","o","l","a","n","t">>,
                  <<"s","t","e","e","r","i","n","g"," ","w","h","e","e","l">>>>]>>

STOP ==
    {<<"a">>, <<"n","a">>, <<"d","o">>, <<"p","r","e">>, <<"p","o","d">>, <<"n","a","d">>,
     <<"p","r","i">>, <<"p","o">>, <<"z">>, <<"s">>, <<"b","e","z">>, <<"a","u","t","o">>,
     <<"i","n","e">>, <<"o","s","t","a","t","n","e">>,
     <<"m","a","t","e","r","i","a","l">>, <<"d","r","o","b","n","y">>,
     <<"d","r","o","b","n","e">>,
     <<"a","u","t","o","p","o","i","s","t","k","y">>,
     <<"k","a","r","o","s","e","r","i","a">>, <<"o","c","h","r","a","n","a">>}

\* slug.split(/[-_ ]+/): the pieces between runs of separators
RECURSIVE splitOn(_, _, _)
splitOn(x, seps, piece) ==
    IF x = <<>> THEN <<piece>>
    ELSE IF Head(x) \in seps
         THEN IF Len(x) > 1 /\ x[2] \in seps THEN splitOn(Tail(x), seps, piece)
              ELSE <<piece>> \o splitOn(Tail(x), seps, <<>>)
         ELSE splitOn(Tail(x), seps, Append(piece, Head(x)))

\* \w of a regular expression without the u flag
IsWordChar(c) == IsAsciiLetter(c) \/ c \in {"0","1","2","3","4","5","6","7","8","9","_"}

\* text.match(/\btoken\w*\b/g).length: a match takes its word to the end, so
\* the matches are the places where the token begins a word
wordBoundaryMatch(text, token) ==
    Cardinality({i \in 1..(Len(text) - Len(token) + 1) :
                    /\ SubSeq(text, i, i + Len(token) - 1) = token
                    /\ (i = 1 \/ ~IsWordChar(text[i - 1]))})

\* The tokens of a slug that count: 4 letters or more, no stop word
partsOf(slug) ==
    LET counts(t) == t # <<>> /\ Len(t) >= 4 /\ t \notin STOP
    IN  SelectSeq(Map1(normalizeSimple, splitOn(slug, {"-", "_", " "}, <<>>)), counts)

RECURSIVE sumOver(_, _)
sumOver(text, parts) ==
    IF parts = <<>> THEN 0 ELSE wordBoundaryMatch(text, Head(parts)) + sumOver(text, Tail(parts))

scoreOf(text, slug) == sumOver(text, partsOf(slug))

\* The test that lets a later leaf of the same score take the lead
leads_orEqual(score, bestScore) == score >= bestScore /\ score > 0

\* if (score > bestScore)
leads(score, bestScore) == score > bestScore

\* The loop over the leaves: best = [slug, score] so far
RECURSIVE bestLeaf(_, _, _, _)
bestLeaf(text, leaves, i, best) ==
    IF i > Len(leaves) THEN best
    ELSE LET slug == leaves[i].node_slug
         IN  IF slug = <<>> \/ partsOf(slug) = <<>> THEN bestLeaf(text, leaves, i + 1, best)
             ELSE IF leads(scoreOf(text, slug), best.score)
                  THEN bestLeaf(text, leaves, i + 1,
                                [slug |-> slug, score |-> scoreOf(text, slug)])
                  ELSE bestLeaf(text, leaves, i + 1, best)

\* Step 2: the first entry of the keyword table whose slug is in the
\* whitelist and one of whose keywords is in the text; 0 when there is none
keywordEntry(text, leaves) ==
    LET whitelistSet == {leaves[i].node_slug : i \in 1..Len(leaves)}
        fits(e) == /\ e.slug \in whitelistSet
                   /\ \E k \in 1..Len(e.kws) : includes(text, normalizeSimple(e.kws[k]))
    IN  firstIndex(fits, KEYWORD_TO_SLUG)

autoRefineSlugPicks(slugs, p, leaves) ==
    LET text       == buildTextForMatch(p)
        truthy(x)  == x # <<>>
        cleaned    == SelectSeq(slugs, truthy)
        specific(x) == normalizeSimple(x) # Slug.ine
        nonGeneric == SelectSeq(cleaned, specific)
        kw         == keywordEntry(text, leaves)
        best       == bestLeaf(text, leaves, 1, [slug |-> <<>>, score |-> 0])
    IN  IF nonGeneric # <<>> THEN unique(nonGeneric)
        ELSE IF kw # 0 THEN <<KEYWORD_TO_SLUG[kw].slug>>
        ELSE IF best.score > 0 /\ best.slug # <<>> THEN <<best.slug>>
        ELSE cleaned

\* collections_node_slugs.filter(Boolean) as the classification may give it
RawPicks ==
    {<<>>, <<Slug.ine>>, <<Slug.Ine, Slug.ine>>, <<Slug.ine, Slug.volanty>>,
     <<Slug.kryty, Slug.ine, Slug.kryty, Slug.led>>, <<Slug.led, Slug.led>>}

Leaf(slug) == [node_slug |-> slug]

\* Whitelists: the leaves under the brand or under the preferred area
Whitelists ==
    {<<>>,
     <<Leaf(Slug.ostatne), Leaf(Slug.led), Leaf(Slug.stierace), Leaf(Slug.kryty)>>,
     <<Leaf(Slug.kryty), Leaf(<<>>), Leaf(Slug.stierace), Leaf(Slug.volanty)>>,
     <<Leaf(Slug.volanty), Leaf(Slug.ine)>>}

RefineTitles ==
    {<<"N","i","e","c","^","o">>,
     <<"K","r","y","t","y"," ","z","r","k","a","d","i","e","l",","," ","k","r","y","t","y">>,
     <<"S","t","i","e","r","a","c","e"," ","a"," ","k","r","y","t","y">>,
     <<"P","o","d","k","r","y","t","y"," ","L","E","D">>,
     <<"K","o","z^","e","n","y'"," ","v","o","l","a","n","t">>}

RefineTags == {<<>>, <<<<"S","t","i","e","r","a","c","e">>>>}

RefineInit ==
    /\ \E slugs \in RawPicks, leaves \in Whitelists, title \in RefineTitles,
          tags \in RefineTags :
          pf = [slugs |-> slugs, leaves |-> leaves,
                p |-> [title |-> title, descriptionHtml |-> <<>>, tags |-> tags],
                op |-> "", picks |-> <<>>]
    /\ store = 0 /\ events = 0 /\ inv = 0 /\ ai = 0 /\ ens = 0 /\ rm = 0 /\ rl = 0
    /\ wp = 0 /\ tx = 0 /\ fr = 0 /\ md = 0

\* slugPicks = autoRefineSlugPicks(slugPicks, detectedBrand, p, leaves)
Refine ==
    /\ pf.op = ""
    /\ pf' = [pf EXCEPT !.op = "refined",
                        !.picks = autoRefineSlugPicks(pf.slugs, pf.p, pf.leaves)]
    /\ UNCHANGED <<store, events, inv, ai, ens, rm, rl, wp, tx, fr, md>>

SpecRefine == RefineInit /\ [][Refine]_vars

isGeneric(slug) == normalizeSimple(slug) = Slug.ine

hasSpecific(slugs) == \E i \in 1..Len(slugs) : ~isGeneric(slugs[i])

\* q is sub with nothing added and nothing reordered: the elements of sub at
\* increasing places
firstOccurrences(sub) ==
    SelectSeq([i \in 1..Len(sub) |-> [at |-> i, slug |-> sub[i]]],
              LAMBDA e : \A j \in 1..(e.at - 1) : sub[j] # e.slug)

slugsOf(es) == [i \in 1..Len(es) |-> es[i].slug]

\* C32 as stated: with a non-generic slug among the raw picks the result is
\* the raw picks without their repetitions, in the order of their first
\* occurrence, nothing else added, removed or reordered.
C32_RawPicksDeduplicated ==
    (pf.op = "refined" /\ hasSpecific(pf.slugs)) =>
        pf.picks = slugsOf(firstOccurrences(pf.slugs))

\* C32: with a non-generic slug among the raw picks the result is the
\* non-generic raw picks without their repetitions, in the order of their
\* first occurrence; the generic picks are left out and nothing else is
\* added, removed or reordered.
C32_SpecificPicksDeduplicated ==
    (pf.op = "refined" /\ hasSpecific(pf.slugs)) =>
        pf.picks = SelectSeq(slugsOf(firstOccurrences(pf.slugs)), LAMBDA x : ~isGeneric(x))

\* Four raw picks, one of them twice and one generic, gave two
C32_RepeatedPickKeptOnce ==
    /\ pf.op = "refined"
    /\ pf.slugs = <<Slug.kryty, Slug.ine, Slug.kryty, Slug.led>>
    /\ pf.picks = <<Slug.kryty, Slug.led>>

\* The leaves of the whitelist that take part in the scoring, by place
scored(leaves) ==
    {i \in 1..Len(leaves) : leaves[i].node_slug # <<>> /\ partsOf(leaves[i].node_slug) # <<>>}

\* C33: without a non-generic slug among the raw picks the result is the slug
\* of the keyword table when it is in the whitelist and one of its keywords is
\* in the text; else the whitelist leaf of the highest score above 0, the
\* earliest one among equals; else the raw picks. Every slug returned is in
\* the whitelist or among the raw picks.
C33_KeywordThenBestScoreThenRaw ==
    (pf.op = "refined" /\ ~hasSpecific(pf.slugs)) =>
        LET text  == buildTextForMatch(pf.p)
            white == {pf.leaves[i].node_slug : i \in 1..Len(pf.leaves)}
            kwHit == /\ Slug.volanty \in white
                     /\ \/ includes(text, <<"v","o","l","a","n","t">>)
                        \/ includes(text, <<"s","t","e","e","r","i","n","g"," ","w","h","e","e","l">>)
            top   == {i \in scored(pf.leaves) :
                        /\ scoreOf(text, pf.leaves[i].node_slug) > 0
                        /\ \A j \in scored(pf.leaves) :
                              scoreOf(text, pf.leaves[j].node_slug)
                                 <= scoreOf(text, pf.leaves[i].node_slug)}
        IN  /\ pf.picks = (IF kwHit THEN <<Slug.volanty>>
                           ELSE IF top # {} THEN <<pf.leaves[leastOf(top)].node_slug>>
                           ELSE pf.slugs)
            /\ \A k \in 1..Len(pf.picks) :
                  \/ pf.picks[k] \in white
                  \/ \E j \in 1..Len(pf.slugs) : pf.slugs[j] = pf.picks[k]

\* Two leaves score 1 each and the earlier one in the whitelist is returned
C33_EarlierLeafWinsTie ==
    /\ pf.op = "refined" /\ pf.slugs = <<Slug.ine>>
    /\ pf.leaves = <<Leaf(Slug.ostatne), Leaf(Slug.led), Leaf(Slug.stierace), Leaf(Slug.kryty)>>
    /\ scoreOf(buildTextForMatch(pf.p), Slug.stierace) = 1
    /\ scoreOf(buildTextForMatch(pf.p), Slug.kryty) = 1
    /\ pf.picks = <<Slug.stierace>>

-----------------------------------------------------------------------------
(* SpecFind: restFindCustomCollectionByTitle and restEnsureCustomCollection *)
(* applied to a store and a title                                           *)

WantedTitles ==
    {Str.AUDI, Str.AUDI \o <<" ">> \o Str.Exterier, <<" ","a","u","d","i","  ">>, Str.BMW}

FindInit ==
    /\ \E colls \in InitialColls, title \in WantedTitles :
          pf = [st |-> [colls |-> colls, nextId |-> Len(colls) + 1, files |-> {}],
                before |-> colls, title |-> title, op |-> "", found |-> Null,
                created |-> FALSE]
    /\ store = 0 /\ events = 0 /\ inv = 0 /\ ai = 0 /\ ens = 0 /\ rm = 0 /\ rl = 0
    /\ wp = 0 /\ tx = 0 /\ fr = 0 /\ md = 0

FindByTitle ==
    /\ pf.op = ""
    /\ pf' = [pf EXCEPT !.op = "find",
                        !.found = restFindCustomCollectionByTitle(pf.st.colls, pf.title)]
    /\ UNCHANGED <<store, events, inv, ai, ens, rm, rl, wp, tx, fr, md>>

\* restEnsureCustomCollection(title)
EnsureByTitle ==
    /\ pf.op = ""
    /\ LET node == [name |-> pf.title, title |-> <<>>, node_slug |-> "", facets |-> <<>>]
           r    == ensureNode(pf.st, node)
       IN  pf' = [pf EXCEPT !.op = "ensure", !.st = r.st, !.found = r.coll,
                            !.created = r.created]
    /\ UNCHANGED <<store, events, inv, ai, ens, rm, rl, wp, tx, fr, md>>

SpecFind == FindInit /\ [][FindByTitle \/ EnsureByTitle]_vars

\* The places of the listing, as the store answers it, whose normalised title
\* is the wanted one, and those whose normalised title starts with it
listed(colls) == 1..Min(Len(colls), ListLimit)

exactAt(colls, title) ==
    {k \in listed(colls) : normalizeForMatch(colls[k].title) = normalizeForMatch(title)}

prefixAt(colls, title) ==
    {k \in listed(colls) :
        startsWith(normalizeForMatch(colls[k].title), normalizeForMatch(title))}

\* C34: the lookup returns a collection of the listing whose normalised title
\* equals the wanted one whenever the listing (the page of at most 250
\* collections the store answers) holds one, wherever it stands; only when
\* none is equal, the first one whose normalised title starts with the wanted
\* one; none when there is neither, and only then is a collection created.
C34_ExactBeforePrefixElseCreate ==
    /\ pf.op = "find" =>
          /\ exactAt(pf.st.colls, pf.title) # {} =>
                pf.found = pf.st.colls[leastOf(exactAt(pf.st.colls, pf.title))]
          /\ (exactAt(pf.st.colls, pf.title) = {} /\ prefixAt(pf.st.colls, pf.title) # {}) =>
                pf.found = pf.st.colls[leastOf(prefixAt(pf.st.colls, pf.title))]
          /\ prefixAt(pf.st.colls, pf.title) = {} => pf.found = Null
    /\ pf.op = "ensure" =>
          /\ pf.created <=> prefixAt(pf.before, pf.title) = {}
          /\ pf.created <=> Len(pf.st.colls) = Len(pf.before) + 1
          /\ ~pf.created => pf.st.colls = pf.before

\* 'AUDI Exteriér' is listed before 'AUDI' and the lookup of AUDI returns
\* the second
C34_ExactFoundBehindPrefix ==
    /\ pf.op = "find" /\ pf.title = Str.AUDI
    /\ Len(pf.st.colls) = 2
    /\ pf.st.colls[1].title = Str.AUDI \o <<" ">> \o Str.Exterier
    /\ pf.found = pf.st.colls[2]

-----------------------------------------------------------------------------
(* The collections the handler creates (Spec)                              *)

\* The names of the nodes of a forest
nodeNames(tax) ==
    LET paths == pathsUnder(tax, <<>>)
    IN  {nodeName(paths[k][Len(paths[k])]) : k \in 1..Len(paths)}

\* C38: every collection the handler creates has the name of a node of the
\* loaded taxonomy as its title, whatever the service, the tags or the
\* fallbacks propose; with an empty taxonomy no collection is created and no
\* membership is added.
C38_OnlyTaxonomyCollections ==
    /\ \A k \in 1..Len(store.colls) : store.colls[k].title \in nodeNames(taxonomia)
    /\ taxonomia = <<>> => store.colls = <<>> /\ store.collects = <<>>

\* The service named 'Audi Exteriér', the collection created for it has the
\* title of the node, 'AUDI Exteriér', and the product was attached to it
C38_CreatedUnderNodeName ==
    /\ ai.out = OutNamed
    /\ \E k \in 1..Len(store.colls) :
          /\ store.colls[k].title = Str.AUDI \o <<" ">> \o Str.Exterier
          /\ \E c \in 1..Len(store.collects) : store.collects[c] = store.colls[k].id

\* ---------------------------------------------------------------------
\* The seed script (src/scripts/seed-collections-min.js)
\* ---------------------------------------------------------------------

\* normalize of the seed script: trimmed, whitespace collapsed, lower case,
\* marks stripped
normalize(s) == stripDiacritics(toLowerCase(collapseSpaces(trim(s))))

\* findByTitle of the seed script: every page of the listing is read; the
\* first collection whose normalised title equals the wanted one, or 0
findByTitle(colls, title) ==
    LET hits == {k \in 1..Len(colls) : normalize(colls[k].title) = normalize(title)}
    IN  IF hits = {} THEN 0 ELSE colls[CHOOSE k \in hits : \A h \in hits : k <= h].id

\* The forests the script seeds: the definition file expanded for its two
\* brands, and for one brand only (no two nodes of that forest share a name)
OneBrandFile ==
    [kind |-> "json",
     raw |-> [BRANDS |-> <<Str.AUDI>>, TEMPLATE |-> TaxonomiaJson.TEMPLATE]]

SeedForests ==
    {loadTaxonomia(NoTaxonomia(TaxonomiaFile)), loadTaxonomia(NoTaxonomia(OneBrandFile))}

\* The store before the script runs: empty, or with the first brand's root
\* there already under a lower-case title
SeedStores == {<<>>, <<Collection(1, toLowerCase(Str.AUDI))>>}

\* The answers of the store to a metafield write
MetafieldAnswers == {"ok", "rejected"}

\* upsertMetafieldCollection: a rejected write is logged and nothing is
\* raised
upsertMetafieldCollection(colls, id, key, value, answer) ==
    IF answer = "ok" THEN upsertMetafield(colls, id, key, value) ELSE colls

\* setSubCollections: the reference list is written as the list given
setSubCollections(colls, parentId, childIds, answer) ==
    upsertMetafieldCollection(colls, parentId, "children", childIds, answer)

\* The index, in the order of the visits, of the parent of the node visited
\* k-th; 0 for a root
parentOf(paths, k) ==
    LET path == paths[k]
        up   == {j \in 1..(k - 1) : paths[j] = SubSeq(path, 1, Len(path) - 1)}
    IN  IF Len(path) = 1 \/ up = {} THEN 0 ELSE CHOOSE j \in up : \A h \in up : h <= j

SeedInit ==
    /\ \E forest \in SeedForests, colls \in SeedStores :
          pf = [forest |-> forest, paths |-> pathsUnder(forest, <<>>), colls |-> colls,
                ids |-> <<>>, rejected |-> 0, exit |-> -1]
    /\ store = 0 /\ events = 0 /\ inv = 0 /\ ai = 0 /\ ens = 0 /\ rm = 0
    /\ rl = 0 /\ wp = 0 /\ tx = 0 /\ fr = 0 /\ md = 0

\* visit(node, level): the collection is found or created, its level, node
\* slug and parent are written, and it is written as the sub-collection of
\* the node on top of the stack
Visit ==
    /\ pf.exit = -1
    /\ Len(pf.ids) < Len(pf.paths)
    /\ \E answer \in MetafieldAnswers :
          LET k      == Len(pf.ids) + 1
              path   == pf.paths[k]
              node   == path[Len(path)]
              level  == Len(path) - 1
              found  == findByTitle(pf.colls, nodeName(node))
              id     == IF found # 0 THEN found ELSE Len(pf.colls) + 1
              c0     == IF found # 0 THEN pf.colls
                        ELSE Append(pf.colls, Collection(id, nodeName(node)))
              c1     == upsertMetafieldCollection(c0, id, "level", level, answer)
              c2     == upsertMetafieldCollection(c1, id, "node_slug", node.node_slug, "ok")
              up     == parentOf(pf.paths, k)
              c3     == IF up # 0
                        THEN upsertMetafieldCollection(c2, id, "parent", pf.ids[up], "ok")
                        ELSE c2
              c4     == IF up # 0
                        THEN setSubCollections(c3, pf.ids[up], <<id>>, "ok")
                        ELSE c3
          IN  /\ answer = "rejected" => pf.rejected < MaxFaults
              /\ pf' = [pf EXCEPT !.colls = c4, !.ids = Append(@, id),
                                  !.rejected = IF answer = "rejected" THEN @ + 1 ELSE @]
    /\ UNCHANGED <<store, events, inv, ai, ens, rm, rl, wp, tx, fr, md>>

\* seedTree has visited every node: the script ends with no error
SeedDone ==
    /\ pf.exit = -1
    /\ Len(pf.ids) = Len(pf.paths)
    /\ pf' = [pf EXCEPT !.exit = 0]
    /\ UNCHANGED <<store, events, inv, ai, ens, rm, rl, wp, tx, fr, md>>

SpecSeed == SeedInit /\ [][Visit \/ SeedDone]_vars

\* The collection of the node visited k-th
seeded(k) == pf.colls[CHOOSE i \in 1..Len(pf.colls) : pf.colls[i].id = pf.ids[k]]

\* C36: once the seed script has ended without error, every node of the
\* taxonomy has a collection whose level is the depth of the node and whose
\* parent is the collection of its parent, and the sub-collections of the
\* collection of every node with children hold the collection of each of
\* its children.
C36_SeededTreeIsLinked ==
    pf.exit = 0 =>
        \A k \in 1..Len(pf.paths) :
            LET up == parentOf(pf.paths, k)
            IN  /\ seeded(k).mf.level = Len(pf.paths[k]) - 1
                /\ up # 0 =>
                      /\ seeded(k).mf.parent = pf.ids[up]
                      /\ \E j \in 1..Len(seeded(up).mf.children) :
                            seeded(up).mf.children[j] = pf.ids[k]

====
